---- MODULE Spec2Model ----
(***************************************************************************)
(* Model of the Redis-backed job queue of wa-bot-v2 (lib/queue.js,         *)
(* lib/job-handlers.js) and of its two drivers, the on-demand worker       *)
(* (processSingleJob) and the cron handler (processQueue).                 *)
(*                                                                         *)
(* The store is the shared state.  Every handler is a process whose steps  *)
(* are the handler's awaited store operations, in program order; a step is *)
(* atomic, as one Redis command is.  Time is in milliseconds (Date.now()). *)
(* Variables whose name starts with g are history variables: they record   *)
(* what happened and are read by no step.                                  *)
(***************************************************************************)
EXTENDS Integers, Sequences, FiniteSets, TLC

VARIABLES
  now,      \* Date.now(), ms
  rec,      \* wa:job:<id>      : job id -> Job Record, or NoRec
  idx,      \* wa:queue:<type>  : type -> set of <<score, member>>
  lock,     \* wa:message_lock  : [held, exp, at]
  circuit,  \* wa:circuit_breaker : NoCircuit or [state, failures, lastFailure, exp]
  dedup,    \* wa:msg_dedup:<key> : set of [key, exp]
  cooldown, \* wa:last_message_sent : [set, at, exp]
  proc,     \* process -> its position and locals
  gElig,    \* job id -> eligibility time of its current index entry
  gOrigin,  \* job id -> who wrote its current index entry
  gLeases,  \* job id -> dequeueJob returns since its last insertion
  gExec,    \* job id -> Executor invocations
  gOk,      \* job id -> successful Executor invocations
  gFails,   \* Executor failures recorded by worker cycles since the last success
  gIds      \* the job ids generated so far

vars == <<now, rec, idx, lock, circuit, dedup, cooldown, proc,
          gElig, gOrigin, gLeases, gExec, gOk, gFails, gIds>>

ghosts == <<gElig, gOrigin, gLeases, gExec, gOk, gFails, gIds>>

----------------------------------------------------------------------------
(* Bounds of the model *)

MaxJobs == 2          \* job ids that can be generated
MaxTicks == 1         \* Spec: the clock stops after MaxTicks seconds
WorkerHorizon == 30   \* SpecWorker: the clock stops after WorkerHorizon seconds
ConcJobs == 1         \* SpecLock, SpecRace: jobs that are enqueued
ConcHorizon == 4      \* SpecLock: the clock stops after ConcHorizon seconds
RaceHorizon == 1      \* SpecRace: the clock stops after RaceHorizon seconds
MaxExec == 4          \* Executor invocations counted per job
OpsDays == 1          \* SpecOps: the clock stops after OpsDays days
LeaseHorizon == 30    \* SpecLease: the clock stops after LeaseHorizon seconds
BatchJobs == 3        \* SpecBatch: jobs that are enqueued
BatchHorizon == 6     \* SpecBatch: the clock stops after BatchHorizon seconds

\* the ids generateJobId can return
JobIds == 1..(IF BatchJobs > MaxJobs THEN BatchJobs ELSE MaxJobs)
\* the ids a caller passes to cancelJob and retryJob
CallerIds == 1..MaxJobs
Priorities == {0, 1}           \* options.priority
Delays == {0, 1}               \* options.delay, seconds
MaxAttemptsOptions == {0}      \* options.maxAttempts; 0 stands for "not given"
Payloads == {"hi"}

----------------------------------------------------------------------------
(* Program constants *)

PRIORITY_WEIGHT == 1000000
MS_PER_SECOND == 1000
DEFAULT_MAX_ATTEMPTS == 3
JOB_TTL == 86400
BACKOFF_BASE == 2
LOCK_EX_SECONDS == 30
LOCK_RETRY_DELAY_MS == 1000
MAX_LOCK_RETRIES == 5
CIRCUIT_FAILURE_THRESHOLD == 5
CIRCUIT_TIMEOUT_MS == 30000
DEDUP_TTL_SECONDS == 300
DEFAULT_COOLDOWN_MS == 5000
COOLDOWN_EX_SECONDS == 60
MAX_JOBS_PER_RUN == 10
SEND_MESSAGE_EXTRA_DELAY_MS == 2000
CLEANUP_OLDER_THAN == 604800
MAX_CONSECUTIVE_FAILURES == 3

JobStatus == [PENDING |-> "pending", PROCESSING |-> "processing",
              COMPLETED |-> "completed", FAILED |-> "failed",
              CANCELLED |-> "cancelled"]

\* Object.values(JobType), in declaration order
JobType == <<"send_message", "broadcast", "scheduled_message", "custom">>
JobTypes == {JobType[i] : i \in 1..Len(JobType)}

\* a type that is none of JobType: the one testQueue passes to enqueueJob
UnknownTypes == {"send"}
\* the types whose index wa:queue:<type> enqueueJob can write
QueueKeys == JobTypes \cup UnknownTypes
\* an argument or a request field that was not given
Absent == "absent"

NoRec == [id |-> 0]
NoCircuit == [state |-> "none"]

RECURSIVE Pow(_, _)
Pow(b, e) == IF e = 0 THEN 1 ELSE b * Pow(b, e - 1)

----------------------------------------------------------------------------
(* The store's commands *)

\* a key written with { ex: seconds } is gone once the expiry has passed
Live(exp) == now < exp

\* ZADD key score member: the member's score is replaced
ZAdd(ix, type, score, id) ==
  [ix EXCEPT ![type] = {e \in @ : e[2] # id} \cup {<<score, id>>}]

\* ZREM key member
ZRem(ix, type, id) == [ix EXCEPT ![type] = {e \in @ : e[2] # id}]

\* sorted-set order: by score, then by member
Before(e, f) == e[1] < f[1] \/ (e[1] = f[1] /\ e[2] <= f[2])
Lowest(S) == CHOOSE e \in S : \A f \in S : Before(e, f)

\* ZRANGE key 0 1: the members of rank 0 and 1, lowest score first
ZRange01(S) ==
  IF S = {} THEN << >>
  ELSE LET a == Lowest(S) IN
       IF S \ {a} = {} THEN <<a[2]>> ELSE <<a[2], Lowest(S \ {a})[2]>>

ZCard(S) == Cardinality(S)

Members(type) == {e[2] : e \in idx[type]}
Indexed(id) == \E t \in JobTypes : id \in Members(t)

\* redis.get of wa:job:<id>: the record, or null once its expiry has passed
Get(id) == IF rec[id] # NoRec /\ Live(rec[id].exp) THEN rec[id] ELSE NoRec

\* redis.set of wa:job:<id> with { ex: JOB_TTL }: the record as it is stored
Stored(job) == [job EXCEPT !.exp = now + (JOB_TTL * MS_PER_SECOND)]

LockPresent == lock.held /\ Live(lock.exp)
CircuitPresent == circuit.state # "none" /\ Live(circuit.exp)
DedupExists(key) == \E m \in dedup : m.key = key /\ Live(m.exp)
CooldownPresent == cooldown.set /\ Live(cooldown.exp)

----------------------------------------------------------------------------
(* Processes *)

\* the serverless instances; each serves one request (handler) at a time
Procs == {"i1", "i2"}

\* no cron request: the handler was not entered through the cron endpoint
NoReq == [header |-> "", query |-> "", expected |-> "", action |-> "none"]

Idle == [pc |-> "idle", kind |-> "none", qt |-> "all", ti |-> 0, jid |-> 0,
         cur |-> NoRec, tries |-> 0, wake |-> 0, res |-> "none",
         ust |-> "none", n |-> 0, rel |-> FALSE, cst |-> "none",
         count |-> 0, i |-> 0, consecutiveFailures |-> 0, processed |-> 0,
         maxJobsPerRun |-> 0, arg |-> "none", limit |-> 0, out |-> <<>>,
         req |-> NoReq, olderThan |-> 0, cleaned |-> 0]

\* the instance is between two requests; the result of the last one stays
\* readable until the next one starts
Ready(p) == proc[p].pc \in {"idle", "done"}

\* the locals of a handler that starts at pc; a lock release that an earlier
\* cycle started and that has not reached the store yet stays in flight
Begin(p, kind, pc) ==
  [Idle EXCEPT !.pc = pc, !.kind = kind, !.rel = proc[p].rel]

\* a handler returns result; jid and tries stay readable with it
Done(pr, result) ==
  [Idle EXCEPT !.pc = "done", !.kind = pr.kind, !.res = result,
               !.jid = pr.jid, !.tries = pr.tries, !.rel = pr.rel]

----------------------------------------------------------------------------
(* lib/queue.js  enqueueJob *)

\* the index score of a new job
EnqueueScore(priority, delay, t) ==
  (priority * PRIORITY_WEIGHT) + t + (delay * MS_PER_SECOND)

\* enqueueJob, up to and including redis.set of the record
EnqueueSet(p, id, type, payload, priority, delay, maxAttemptsOpt) ==
  /\ Ready(p)
  /\ id = Cardinality(gIds) + 1        \* generateJobId: a fresh id
  /\ gIds' = gIds \cup {id}
  /\ rec' = [rec EXCEPT ![id] =
       [id |-> id, type |-> type, payload |-> payload,
        status |-> JobStatus.PENDING, createdAt |-> now, attempts |-> 0,
        maxAttempts |-> IF maxAttemptsOpt = 0 THEN DEFAULT_MAX_ATTEMPTS
                        ELSE maxAttemptsOpt,
        priority |-> priority, delay |-> delay,
        error |-> "none", result |-> "none",
        exp |-> now + (JOB_TTL * MS_PER_SECOND)]]
  /\ proc' = [proc EXCEPT ![p] =
       [Begin(p, "enqueue", "enq_zadd") EXCEPT !.jid = id, !.cur = rec'[id]]]
  /\ UNCHANGED <<now, idx, lock, circuit, dedup, cooldown>>
  /\ UNCHANGED <<gElig, gOrigin, gLeases, gExec, gOk, gFails>>

\* enqueueJob: redis.zadd of the index entry, and the return of the id
EnqueueZAdd(p) ==
  /\ proc[p].pc = "enq_zadd"
  /\ LET job == proc[p].cur
         score == EnqueueScore(job.priority, job.delay, now)
     IN /\ idx' = ZAdd(idx, job.type, score, job.id)
        /\ gElig' = [gElig EXCEPT ![job.id] = now + (job.delay * MS_PER_SECOND)]
        /\ gOrigin' = [gOrigin EXCEPT ![job.id] = "enqueue"]
        /\ gLeases' = [gLeases EXCEPT ![job.id] = 0]
  /\ proc' = [proc EXCEPT ![p] = Done(@, "enqueued")]
  /\ UNCHANGED <<now, rec, lock, circuit, dedup, cooldown>>
  /\ UNCHANGED <<gExec, gOk, gFails, gIds>>

----------------------------------------------------------------------------
(* api/index.js  POST /api/jobs, and testQueue *)

\* POST /api/jobs: 400 when type or payload is missing or type is none of
\* JobType, and enqueueJob otherwise
PostJobs(p, id, type, payload, priority, delay, maxAttemptsOpt) ==
  IF type = Absent \/ payload = Absent \/ type \notin JobTypes
  THEN /\ Ready(p)
       /\ proc' = [proc EXCEPT ![p] = Done(Begin(p, "post", "done"), "400")]
       /\ UNCHANGED <<now, rec, idx, lock, circuit, dedup, cooldown>>
       /\ UNCHANGED ghosts
  ELSE EnqueueSet(p, id, type, payload, priority, delay, maxAttemptsOpt)

\* testQueue: enqueueJob('send', {phone, message}, 1)
TestQueue(p, id) == EnqueueSet(p, id, "send", "hi", 0, 0, 0)

----------------------------------------------------------------------------
(* Where a handler goes on when a call it awaited returns *)

\* const types = queueType ? [queueType] : Object.values(JobType)
Types(pr) == IF pr.qt = "all" THEN JobType ELSE <<pr.qt>>
CurType(pr) == Types(pr)[pr.ti]

\* the lock release that processSingleJob starts and does not await, and its return
ReleaseAndReturn(pr, result) == [Done(pr, result) EXCEPT !.rel = TRUE]

\* processQueue returns: to its caller, or to the cron handler's action
\* 'all', which goes on with performCleanup
CronReturn(pr, result) ==
  IF pr.req.action = "all"
  THEN [pr EXCEPT !.pc = "cleanup", !.jid = 0, !.cur = NoRec, !.ust = "none",
                  !.olderThan = CLEANUP_OLDER_THAN]
  ELSE Done(pr, result)

\* processQueue: the next iteration of `while (jobsProcessed < maxJobsPerRun)`,
\* or the next queue type, or the end of the run
CronLoop(pr) ==
  IF pr.n < pr.maxJobsPerRun
  THEN [pr EXCEPT !.pc = "dq_zrange", !.jid = 0, !.cur = NoRec, !.ust = "none"]
  ELSE IF pr.ti < Len(JobType)
  THEN [pr EXCEPT !.pc = "dq_zrange", !.ti = @ + 1, !.n = 0, !.jid = 0,
                  !.cur = NoRec, !.ust = "none"]
  ELSE CronReturn([pr EXCEPT !.jid = 0], "cronDone")

\* waitForLock returned true: processSingleJob's loop over the types, or
\* processMultipleJobs' `for (let i = 0; i < count; i++)`
AfterLock(pr) ==
  IF pr.kind = "batch" /\ pr.count <= 0
  THEN ReleaseAndReturn(pr, "results")
  ELSE [pr EXCEPT !.pc = "dq_zrange", !.ti = 1]

\* processMultipleJobs: the `break` out of the loop over the types after a job
\* was processed, and the next iteration of the loop over i
BatchIter(pr) ==
  IF pr.i + 1 < pr.count
  THEN [pr EXCEPT !.pc = "dq_zrange", !.ti = 1, !.i = @ + 1, !.jid = 0,
                  !.cur = NoRec, !.ust = "none"]
  ELSE ReleaseAndReturn([pr EXCEPT !.jid = 0], "results")

\* dequeueJob returned null
AfterDequeueNull(pr) ==
  IF pr.kind \in {"single", "batch"}
  THEN IF pr.ti < Len(Types(pr))
       THEN [pr EXCEPT !.pc = "dq_zrange", !.ti = @ + 1, !.jid = 0,
                       !.cur = NoRec]
       ELSE \* processMultipleJobs: `if (!jobProcessed) break`
            ReleaseAndReturn([pr EXCEPT !.jid = 0],
                             IF pr.kind = "single"
                             THEN "No jobs available in queue" ELSE "results")
  ELSE \* processQueue: `if (!job) break`
       IF pr.ti < Len(JobType)
       THEN [pr EXCEPT !.pc = "dq_zrange", !.ti = @ + 1, !.n = 0, !.jid = 0,
                       !.cur = NoRec]
       ELSE CronReturn([pr EXCEPT !.jid = 0], "cronDone")

\* dequeueJob returned a job
AfterDequeueJob(pr) ==
  IF pr.kind \in {"single", "batch"}
  THEN [pr EXCEPT !.pc = "dd_exists"]
  ELSE \* processQueue: results.processed++; jobsProcessed++
       [pr EXCEPT !.pc = "exec", !.n = @ + 1, !.processed = @ + 1]

\* updateJobStatus returned
AfterUpdate(pr) ==
  CASE pr.kind = "cancel" -> Done(pr, "true")
    [] pr.kind = "cron" -> CronLoop(pr)
    [] pr.kind \in {"single", "batch"} /\ pr.ust = JobStatus.COMPLETED ->
         [pr EXCEPT !.pc = "cd_set"]
    [] OTHER -> [pr EXCEPT !.pc = "cf_get"]

----------------------------------------------------------------------------
(* lib/queue.js  dequeueJob *)

\* redis.zrange(key, 0, 1); `if (jobs.length === 0) return null`; jobs[0]
DqZRange(p) ==
  /\ proc[p].pc = "dq_zrange"
  /\ LET pr == proc[p]
         jobs == ZRange01(idx[CurType(pr)])
     IN proc' = [proc EXCEPT ![p] =
          IF Len(jobs) = 0 THEN AfterDequeueNull(pr)
          ELSE [pr EXCEPT !.pc = "dq_zrem", !.jid = jobs[1]]]
  /\ UNCHANGED <<now, rec, idx, lock, circuit, dedup, cooldown>>
  /\ UNCHANGED ghosts

\* redis.zrem(key, jobId)
DqZRem(p) ==
  /\ proc[p].pc = "dq_zrem"
  /\ idx' = ZRem(idx, CurType(proc[p]), proc[p].jid)
  /\ proc' = [proc EXCEPT ![p].pc = "dq_get"]
  /\ UNCHANGED <<now, rec, lock, circuit, dedup, cooldown>>
  /\ UNCHANGED ghosts

\* redis.get of the record; `if (!job) return null`
DqGet(p) ==
  /\ proc[p].pc = "dq_get"
  /\ LET pr == proc[p]
     IN proc' = [proc EXCEPT ![p] =
          IF Get(pr.jid) = NoRec THEN AfterDequeueNull(pr)
          ELSE [pr EXCEPT !.pc = "dq_set", !.cur = Get(pr.jid)]]
  /\ UNCHANGED <<now, rec, idx, lock, circuit, dedup, cooldown>>
  /\ UNCHANGED ghosts

\* job.status = PROCESSING; redis.set of the record; `return job`
DqSet(p) ==
  /\ proc[p].pc = "dq_set"
  /\ LET pr == proc[p]
         job == Stored([pr.cur EXCEPT !.status = JobStatus.PROCESSING])
     IN /\ rec' = [rec EXCEPT ![pr.jid] = job]
        /\ proc' = [proc EXCEPT ![p] = AfterDequeueJob([pr EXCEPT !.cur = job])]
        /\ gLeases' = [gLeases EXCEPT ![pr.jid] = @ + 1]
  /\ UNCHANGED <<now, idx, lock, circuit, dedup, cooldown>>
  /\ UNCHANGED <<gElig, gOrigin, gExec, gOk, gFails, gIds>>

----------------------------------------------------------------------------
(* lib/job-handlers.js  processJob;  lib/queue.js  updateJobStatus *)

\* the handler of the job's type runs and returns (ok) or throws; processJob
\* then calls updateJobStatus(id, 'completed' | 'failed')
Execute(p, ok) ==
  /\ proc[p].pc = "exec"
  /\ gExec[proc[p].jid] < MaxExec
  /\ proc' = [proc EXCEPT ![p].pc = "ujs_get",
                          ![p].ust = IF ok THEN JobStatus.COMPLETED
                                     ELSE JobStatus.FAILED]
  /\ gExec' = [gExec EXCEPT ![proc[p].jid] = @ + 1]
  /\ gOk' = [gOk EXCEPT ![proc[p].jid] = IF ok THEN @ + 1 ELSE @]
  /\ UNCHANGED <<now, rec, idx, lock, circuit, dedup, cooldown>>
  /\ UNCHANGED <<gElig, gOrigin, gLeases, gFails, gIds>>

\* Math.pow(2, job.attempts) * 1000
RetryDelay(attempts) == Pow(BACKOFF_BASE, attempts) * MS_PER_SECOND

\* the index score of a job re-inserted after a failed attempt
RetryScore(job, t) == t + RetryDelay(job.attempts)

\* an updateJobStatus that drops the result it was given
UpdatedNoResult(job, status) ==
  IF status = JobStatus.FAILED
  THEN [job EXCEPT !.status = IF job.attempts + 1 < job.maxAttempts
                              THEN JobStatus.PENDING ELSE status,
                   !.error = "set", !.attempts = @ + 1]
  ELSE [job EXCEPT !.status = status]

\* the record as updateJobStatus changes it before it is written back
Updated(job, status) ==
  IF status = JobStatus.COMPLETED
  THEN [job EXCEPT !.status = status, !.result = "set"]
  ELSE IF status = JobStatus.FAILED
  THEN [job EXCEPT !.status = IF job.attempts + 1 < job.maxAttempts
                              THEN JobStatus.PENDING ELSE status,
                   !.error = "set", !.attempts = @ + 1]
  ELSE [job EXCEPT !.status = status]

\* updateJobStatus: redis.get of the record; `if (!job) return false`
UjsGet(p) ==
  /\ proc[p].pc = "ujs_get"
  /\ LET pr == proc[p]
         job == Updated(Get(pr.jid), pr.ust)
     IN proc' = [proc EXCEPT ![p] =
          IF Get(pr.jid) = NoRec THEN AfterUpdate(pr)
          ELSE [pr EXCEPT !.cur = job,
                  !.pc = IF pr.ust = JobStatus.FAILED
                            /\ job.attempts < job.maxAttempts
                         THEN "ujs_zadd" ELSE "ujs_set"]]
  /\ UNCHANGED <<now, rec, idx, lock, circuit, dedup, cooldown>>
  /\ UNCHANGED ghosts

\* updateJobStatus, retry logic: redis.zadd with the backoff score
UjsZAdd(p) ==
  /\ proc[p].pc = "ujs_zadd"
  /\ LET job == proc[p].cur
         score == RetryScore(job, now)
     IN /\ idx' = ZAdd(idx, job.type, score, job.id)
        /\ gElig' = [gElig EXCEPT ![job.id] = now + RetryDelay(job.attempts)]
        /\ gOrigin' = [gOrigin EXCEPT ![job.id] = "retry"]
        /\ gLeases' = [gLeases EXCEPT ![job.id] = 0]
  /\ proc' = [proc EXCEPT ![p].pc = "ujs_set"]
  /\ UNCHANGED <<now, rec, lock, circuit, dedup, cooldown>>
  /\ UNCHANGED <<gExec, gOk, gFails, gIds>>

\* updateJobStatus: redis.set of the record; `return true`
UjsSet(p) ==
  /\ proc[p].pc = "ujs_set"
  /\ rec' = [rec EXCEPT ![proc[p].jid] = Stored(proc[p].cur)]
  /\ proc' = [proc EXCEPT ![p] = AfterUpdate(proc[p])]
  /\ UNCHANGED <<now, idx, lock, circuit, dedup, cooldown>>
  /\ UNCHANGED ghosts

----------------------------------------------------------------------------
(* A store command that fails: the promise of the redis client rejects *)

\* a command of dequeueJob rejects: dequeueJob has no try/catch, and neither
\* processSingleJob, processMultipleJobs nor processQueue call it inside one,
\* so the exception reaches the handler of the endpoint, which answers 500
DqThrow(p) ==
  /\ proc[p].pc \in {"dq_zrange", "dq_zrem", "dq_get", "dq_set"}
  /\ proc[p].kind \in {"single", "batch", "cron"}
  /\ proc' = [proc EXCEPT ![p] = Done(@, "500")]
  /\ UNCHANGED <<now, rec, idx, lock, circuit, dedup, cooldown>>
  /\ UNCHANGED ghosts

\* a command of updateJobStatus rejects: inside processJob's try, its catch
\* calls updateJobStatus(id, 'failed'); inside the catch, the exception
\* reaches the caller's catch around processJob
UjsThrow(p) ==
  /\ proc[p].pc \in {"ujs_get", "ujs_zadd", "ujs_set"}
  /\ proc[p].kind \in {"single", "batch", "cron"}
  /\ proc' = [proc EXCEPT ![p] =
       IF @.ust = JobStatus.COMPLETED
       THEN [@ EXCEPT !.pc = "ujs_get", !.ust = JobStatus.FAILED]
       ELSE AfterUpdate(@)]
  /\ UNCHANGED <<now, rec, idx, lock, circuit, dedup, cooldown>>
  /\ UNCHANGED ghosts

----------------------------------------------------------------------------
(* lib/queue.js  cancelJob *)

CancelStart(p, id) ==
  /\ Ready(p)
  /\ proc' = [proc EXCEPT ![p] =
       [Begin(p, "cancel", "cn_get") EXCEPT !.jid = id]]
  /\ UNCHANGED <<now, rec, idx, lock, circuit, dedup, cooldown>>
  /\ UNCHANGED ghosts

\* cancelJob without the status test
CnGetAnyStatus(p) ==
  /\ proc[p].pc = "cn_get"
  /\ LET pr == proc[p]
         job == Get(pr.jid)
     IN proc' = [proc EXCEPT ![p] =
          IF job = NoRec THEN Done(pr, "false")
          ELSE [pr EXCEPT !.pc = "cn_zrem", !.cur = job]]
  /\ UNCHANGED <<now, rec, idx, lock, circuit, dedup, cooldown>>
  /\ UNCHANGED ghosts

\* redis.get of the record; only a pending job goes on
CnGet(p) ==
  /\ proc[p].pc = "cn_get"
  /\ LET pr == proc[p]
         job == Get(pr.jid)
     IN proc' = [proc EXCEPT ![p] =
          IF job = NoRec THEN Done(pr, "false")
          ELSE IF job.status # JobStatus.PENDING THEN Done(pr, "false")
          ELSE [pr EXCEPT !.pc = "cn_zrem", !.cur = job]]
  /\ UNCHANGED <<now, rec, idx, lock, circuit, dedup, cooldown>>
  /\ UNCHANGED ghosts

\* cancelJob that forgets the index
CnZRemForgotten(p) ==
  /\ proc[p].pc = "cn_zrem"
  /\ proc' = [proc EXCEPT ![p].pc = "ujs_get",
                          ![p].ust = JobStatus.CANCELLED]
  /\ UNCHANGED <<now, rec, idx, lock, circuit, dedup, cooldown>>
  /\ UNCHANGED ghosts

\* redis.zrem from the job's type's index; then updateJobStatus(id, CANCELLED)
CnZRem(p) ==
  /\ proc[p].pc = "cn_zrem"
  /\ idx' = ZRem(idx, proc[p].cur.type, proc[p].jid)
  /\ proc' = [proc EXCEPT ![p].pc = "ujs_get",
                          ![p].ust = JobStatus.CANCELLED]
  /\ UNCHANGED <<now, rec, lock, circuit, dedup, cooldown>>
  /\ UNCHANGED ghosts

----------------------------------------------------------------------------
(* lib/queue.js  retryJob *)

RetryStart(p, id) ==
  /\ Ready(p)
  /\ proc' = [proc EXCEPT ![p] =
       [Begin(p, "retry", "rt_get") EXCEPT !.jid = id]]
  /\ UNCHANGED <<now, rec, idx, lock, circuit, dedup, cooldown>>
  /\ UNCHANGED ghosts

\* retryJob without the status test
RtGetAnyStatus(p) ==
  /\ proc[p].pc = "rt_get"
  /\ LET pr == proc[p]
         job == Get(pr.jid)
     IN proc' = [proc EXCEPT ![p] =
          IF job = NoRec THEN Done(pr, "false")
          ELSE [pr EXCEPT !.pc = "rt_zadd",
                  !.cur = [job EXCEPT !.status = JobStatus.PENDING,
                                      !.attempts = 0, !.error = "none"]]]
  /\ UNCHANGED <<now, rec, idx, lock, circuit, dedup, cooldown>>
  /\ UNCHANGED ghosts

\* redis.get of the record; only a failed job goes on, reset for the retry:
\* status pending, attempts 0, error null
RtGet(p) ==
  /\ proc[p].pc = "rt_get"
  /\ LET pr == proc[p]
         job == Get(pr.jid)
     IN proc' = [proc EXCEPT ![p] =
          IF job = NoRec THEN Done(pr, "false")
          ELSE IF job.status # JobStatus.FAILED THEN Done(pr, "false")
          ELSE [pr EXCEPT !.pc = "rt_zadd",
                  !.cur = [job EXCEPT !.status = JobStatus.PENDING,
                                      !.attempts = 0, !.error = "none"]]]
  /\ UNCHANGED <<now, rec, idx, lock, circuit, dedup, cooldown>>
  /\ UNCHANGED ghosts

\* a retryJob score that drops the priority weight
RetryJobScoreUnweighted(job, t) == t

\* (job.priority * 1000000) + Date.now()
RetryJobScore(job, t) == (job.priority * PRIORITY_WEIGHT) + t

\* retryJob: redis.zadd, "Add back to queue"
RtZAdd(p) ==
  /\ proc[p].pc = "rt_zadd"
  /\ LET job == proc[p].cur
     IN /\ idx' = ZAdd(idx, job.type, RetryJobScore(job, now), job.id)
        /\ gElig' = [gElig EXCEPT ![job.id] = now]
        /\ gOrigin' = [gOrigin EXCEPT ![job.id] = "retryJob"]
        /\ gLeases' = [gLeases EXCEPT ![job.id] = 0]
  /\ proc' = [proc EXCEPT ![p].pc = "rt_set"]
  /\ UNCHANGED <<now, rec, lock, circuit, dedup, cooldown>>
  /\ UNCHANGED <<gExec, gOk, gFails, gIds>>

\* retryJob: redis.set of the record; `return true`
RtSet(p) ==
  /\ proc[p].pc = "rt_set"
  /\ rec' = [rec EXCEPT ![proc[p].jid] = Stored(proc[p].cur)]
  /\ proc' = [proc EXCEPT ![p] = Done(@, "true")]
  /\ UNCHANGED <<now, idx, lock, circuit, dedup, cooldown>>
  /\ UNCHANGED ghosts

----------------------------------------------------------------------------
(* worker: lock, circuit breaker, deduplication, cooldown *)

\* acquireLock without NX
AcquireLockAlways(l, t) ==
  [held |-> TRUE, exp |-> t + (LOCK_EX_SECONDS * MS_PER_SECOND), at |-> t]

\* acquireLock: SET wa:message_lock <now> NX EX 30
AcquireLock(l, t) ==
  IF l.held /\ t < l.exp THEN l
  ELSE [held |-> TRUE, exp |-> t + (LOCK_EX_SECONDS * MS_PER_SECOND), at |-> t]

NoLock == [held |-> FALSE, exp |-> 0, at |-> 0]

\* isCircuitOpen, on the record it read: "open", "expired" (to be deleted) or "closed"
CircuitVerdict(c, present, t) ==
  IF present /\ c.state = "OPEN"
  THEN IF t - c.lastFailure < CIRCUIT_TIMEOUT_MS THEN "open" ELSE "expired"
  ELSE "closed"

\* recordCircuitFailure that opens one failure late
FailureRecordLate(c, present, t) ==
  LET failures == IF present THEN c.failures + 1 ELSE 1
      state == IF present /\ failures > CIRCUIT_FAILURE_THRESHOLD
               THEN "OPEN" ELSE "HALF_OPEN"
  IN [state |-> state, failures |-> failures, lastFailure |-> t,
      exp |-> t + ((CIRCUIT_TIMEOUT_MS * 2) * MS_PER_SECOND)]

\* recordCircuitFailure, on the record it read: the record it writes
FailureRecord(c, present, t) ==
  LET failures == IF present THEN c.failures + 1 ELSE 1
      state == IF present /\ failures >= CIRCUIT_FAILURE_THRESHOLD
               THEN "OPEN" ELSE "HALF_OPEN"
  IN [state |-> state, failures |-> failures, lastFailure |-> t,
      exp |-> t + ((CIRCUIT_TIMEOUT_MS * 2) * MS_PER_SECOND)]

\* `${job.type}:${job.id}:${JSON.stringify(job.payload)}`
DedupKey(job) == <<job.type, job.id, job.payload>>

\* getCooldownRemaining
CooldownRemaining(cd, present, t) ==
  IF ~present THEN 0
  ELSE LET remaining == DEFAULT_COOLDOWN_MS - (t - cd.at)
       IN IF remaining > 0 THEN remaining ELSE 0

NoCooldown == [set |-> FALSE, at |-> 0, exp |-> 0]

\* processSingleJob(queueType) is invoked
SingleStart(p, qt) ==
  /\ Ready(p)
  /\ proc' = [proc EXCEPT ![p] =
       [Begin(p, "single", "cb_get") EXCEPT !.qt = qt]]
  /\ UNCHANGED <<now, rec, idx, lock, circuit, dedup, cooldown>>
  /\ UNCHANGED ghosts

\* processMultipleJobs(count, queueType) is invoked
BatchStart(p, count, qt) ==
  /\ Ready(p)
  /\ proc' = [proc EXCEPT ![p] =
       [Begin(p, "batch", "cb_get") EXCEPT !.qt = qt, !.count = count]]
  /\ UNCHANGED <<now, rec, idx, lock, circuit, dedup, cooldown>>
  /\ UNCHANGED ghosts

\* isCircuitOpen: redis.get of the circuit record
CbGet(p) ==
  /\ proc[p].pc = "cb_get"
  /\ LET v == CircuitVerdict(circuit, CircuitPresent, now)
     IN proc' = [proc EXCEPT ![p] =
          IF v = "open"
          THEN Done(@, "Circuit breaker open - try again later")
          ELSE IF v = "expired" THEN [@ EXCEPT !.pc = "cb_del"]
          ELSE [@ EXCEPT !.pc = "lk_acquire"]]
  /\ UNCHANGED <<now, rec, idx, lock, circuit, dedup, cooldown>>
  /\ UNCHANGED ghosts

\* isCircuitOpen: "Reset circuit after timeout", redis.del
CbDel(p) ==
  /\ proc[p].pc = "cb_del"
  /\ circuit' = NoCircuit
  /\ gFails' = 0
  /\ proc' = [proc EXCEPT ![p].pc = "lk_acquire"]
  /\ UNCHANGED <<now, rec, idx, lock, dedup, cooldown>>
  /\ UNCHANGED <<gElig, gOrigin, gLeases, gExec, gOk, gIds>>

\* waitForLock: one acquireLock()
LkAcquire(p) ==
  /\ proc[p].pc = "lk_acquire"
  /\ lock' = AcquireLock(lock, now)
  /\ proc' = [proc EXCEPT ![p] =
       IF lock' # lock
       THEN AfterLock(@)
       ELSE [@ EXCEPT !.pc = "lk_check"]]
  /\ UNCHANGED <<now, rec, idx, circuit, dedup, cooldown>>
  /\ UNCHANGED ghosts

\* a waitForLock that gives the job at the head of the queue up with the lock
LkCheckDropping(p) ==
  /\ proc[p].pc = "lk_check"
  /\ idx' = [idx EXCEPT ![Types(proc[p])[1]] = {}]
  /\ proc' = [proc EXCEPT ![p] =
       IF @.tries < MAX_LOCK_RETRIES - 1
       THEN [@ EXCEPT !.pc = "lk_sleep", !.tries = @ + 1,
                      !.wake = now + LOCK_RETRY_DELAY_MS]
       ELSE Done([@ EXCEPT !.tries = @ + 1],
                 "Another instance is processing, try again later")]
  /\ UNCHANGED <<now, rec, lock, circuit, dedup, cooldown>>
  /\ UNCHANGED ghosts

\* a waitForLock that never gives up
LkCheckForever(p) ==
  /\ proc[p].pc = "lk_check"
  /\ proc' = [proc EXCEPT ![p] =
       [@ EXCEPT !.pc = "lk_sleep", !.tries = @ + 1,
                 !.wake = now + LOCK_RETRY_DELAY_MS]]
  /\ UNCHANGED <<now, rec, idx, lock, circuit, dedup, cooldown>>
  /\ UNCHANGED ghosts

\* waitForLock: checkLock(), then the retry delay or, after the last attempt,
\* `return false` and processSingleJob's "Another instance" result
LkCheck(p) ==
  /\ proc[p].pc = "lk_check"
  /\ proc' = [proc EXCEPT ![p] =
       IF @.tries < MAX_LOCK_RETRIES - 1
       THEN [@ EXCEPT !.pc = "lk_sleep", !.tries = @ + 1,
                      !.wake = now + LOCK_RETRY_DELAY_MS]
       ELSE Done([@ EXCEPT !.tries = @ + 1],
                 "Another instance is processing, try again later")]
  /\ UNCHANGED <<now, rec, idx, lock, circuit, dedup, cooldown>>
  /\ UNCHANGED ghosts

\* a setTimeout has elapsed (lock retry delay, cooldown)
Wake(p) ==
  /\ proc[p].pc \in {"lk_sleep", "cd_sleep"}
  /\ now >= proc[p].wake
  /\ proc' = [proc EXCEPT ![p].pc = IF @ = "lk_sleep" THEN "lk_acquire" ELSE "exec",
                          ![p].wake = 0]
  /\ UNCHANGED <<now, rec, idx, lock, circuit, dedup, cooldown>>
  /\ UNCHANGED ghosts

\* isDuplicateMessage that finds no marker
DdExistsBlind(p) ==
  /\ proc[p].pc = "dd_exists"
  /\ proc' = [proc EXCEPT ![p].pc = "dd_set"]
  /\ UNCHANGED <<now, rec, idx, lock, circuit, dedup, cooldown>>
  /\ UNCHANGED ghosts

\* isDuplicateMessage: redis.exists of the marker
DdExists(p) ==
  /\ proc[p].pc = "dd_exists"
  /\ proc' = [proc EXCEPT ![p] =
       IF DedupExists(DedupKey(@.cur))
       THEN IF @.kind = "batch"
            THEN AfterDequeueNull(@)     \* `continue`: the next type
            ELSE ReleaseAndReturn(@, "Duplicate message ignored")
       ELSE [@ EXCEPT !.pc = "dd_set"]]
  /\ UNCHANGED <<now, rec, idx, lock, circuit, dedup, cooldown>>
  /\ UNCHANGED ghosts

\* isDuplicateMessage: redis.set of the marker, ex DEDUP_TTL_SECONDS
DdSet(p) ==
  /\ proc[p].pc = "dd_set"
  /\ LET key == DedupKey(proc[p].cur)
     IN dedup' = {m \in dedup : m.key # key} \cup
                 {[key |-> key, exp |-> now + (DEDUP_TTL_SECONDS * MS_PER_SECOND)]}
  /\ proc' = [proc EXCEPT ![p].pc = "cd_get"]
  /\ UNCHANGED <<now, rec, idx, lock, circuit, cooldown>>
  /\ UNCHANGED ghosts

\* processMultipleJobs: 2s extra for send_message jobs
AdditionalDelay(pr) ==
  IF pr.kind = "batch" /\ pr.cur.type = "send_message"
  THEN SEND_MESSAGE_EXTRA_DELAY_MS ELSE 0

\* waitForCooldown(additionalDelay): getCooldownRemaining, then the setTimeout
\* if any
CdGet(p) ==
  /\ proc[p].pc = "cd_get"
  /\ LET totalDelay == CooldownRemaining(cooldown, CooldownPresent, now)
                       + AdditionalDelay(proc[p])
     IN proc' = [proc EXCEPT ![p] =
          IF totalDelay > 0
          THEN [@ EXCEPT !.pc = "cd_sleep", !.wake = now + totalDelay]
          ELSE [@ EXCEPT !.pc = "exec"]]
  /\ UNCHANGED <<now, rec, idx, lock, circuit, dedup, cooldown>>
  /\ UNCHANGED ghosts

\* updateCooldown: redis.set of the timestamp, ex 60
CdSet(p) ==
  /\ proc[p].pc = "cd_set"
  /\ cooldown' = [set |-> TRUE, at |-> now,
                  exp |-> now + (COOLDOWN_EX_SECONDS * MS_PER_SECOND)]
  /\ proc' = [proc EXCEPT ![p].pc = "cb_reset"]
  /\ UNCHANGED <<now, rec, idx, lock, circuit, dedup>>
  /\ UNCHANGED ghosts

\* resetCircuit: redis.del; then releaseLock() and the success result
CbReset(p) ==
  /\ proc[p].pc = "cb_reset"
  /\ circuit' = NoCircuit
  /\ gFails' = 0
  /\ proc' = [proc EXCEPT ![p] =
       IF @.kind = "batch"
       THEN BatchIter([@ EXCEPT !.consecutiveFailures = 0])
       ELSE ReleaseAndReturn(@, "success")]
  /\ UNCHANGED <<now, rec, idx, lock, dedup, cooldown>>
  /\ UNCHANGED <<gElig, gOrigin, gLeases, gExec, gOk, gIds>>

\* recordCircuitFailure: redis.get of the circuit record
CfGet(p) ==
  /\ proc[p].pc = "cf_get"
  /\ LET r == FailureRecord(circuit, CircuitPresent, now)
     IN proc' = [proc EXCEPT ![p].pc = "cf_set", ![p].n = r.failures,
                             ![p].cst = r.state]
  /\ UNCHANGED <<now, rec, idx, lock, circuit, dedup, cooldown>>
  /\ UNCHANGED ghosts

\* A recording of the failure after which a batch never stops early
CfSetNoAbort(p) ==
  /\ proc[p].pc = "cf_set"
  /\ circuit' = [state |-> proc[p].cst, failures |-> proc[p].n,
                 lastFailure |-> now,
                 exp |-> FailureRecord(circuit, FALSE, now).exp]
  /\ gFails' = gFails + 1
  /\ proc' = [proc EXCEPT ![p] =
       IF @.kind = "batch"
       THEN BatchIter([@ EXCEPT !.consecutiveFailures = @ + 1])
       ELSE ReleaseAndReturn(@, "error")]
  /\ UNCHANGED <<now, rec, idx, lock, dedup, cooldown>>
  /\ UNCHANGED <<gElig, gOrigin, gLeases, gExec, gOk, gIds>>

\* recordCircuitFailure: redis.set of the record, lastFailure = now; then
\* releaseLock() and the error result
CfSet(p) ==
  /\ proc[p].pc = "cf_set"
  /\ circuit' = [state |-> proc[p].cst, failures |-> proc[p].n,
                 lastFailure |-> now,
                 exp |-> FailureRecord(circuit, FALSE, now).exp]
  /\ gFails' = gFails + 1
  /\ proc' = [proc EXCEPT ![p] =
       IF @.kind = "batch"
       THEN IF @.consecutiveFailures + 1 >= MAX_CONSECUTIVE_FAILURES
            THEN \* `return results` with consecutiveFailures at the maximum
                 [ReleaseAndReturn([@ EXCEPT !.jid = 0], "results")
                    EXCEPT !.consecutiveFailures = MAX_CONSECUTIVE_FAILURES]
            ELSE BatchIter([@ EXCEPT !.consecutiveFailures = @ + 1])
       ELSE ReleaseAndReturn(@, "error")]
  /\ UNCHANGED <<now, rec, idx, lock, dedup, cooldown>>
  /\ UNCHANGED <<gElig, gOrigin, gLeases, gExec, gOk, gIds>>

\* releaseLock: the redis.del that the cycle started reaches the store
LockDel(p) ==
  /\ proc[p].rel
  /\ lock' = NoLock
  /\ proc' = [proc EXCEPT ![p].rel = FALSE]
  /\ UNCHANGED <<now, rec, idx, circuit, dedup, cooldown>>
  /\ UNCHANGED ghosts

----------------------------------------------------------------------------
(* lib/queue.js  getJobsByStatus *)

\* the ids of the records in the store
StoredIds == {id \in JobIds : Get(id) # NoRec}

\* redis.keys('wa:job:*'): the keys in an order the store chooses
KeysOrders(ids) ==
  {ks \in [1..Cardinality(ids) -> ids] :
     \A a, b \in 1..Cardinality(ids) : ks[a] = ks[b] => a = b}

\* Array.prototype.sort with (a, b) => b.createdAt - a.createdAt: stable,
\* newest first
RECURSIVE InsertNewestFirst(_, _)
InsertNewestFirst(job, sorted) ==
  IF sorted = <<>> THEN <<job>>
  ELSE IF Head(sorted).createdAt >= job.createdAt
  THEN <<Head(sorted)>> \o InsertNewestFirst(job, Tail(sorted))
  ELSE <<job>> \o sorted

RECURSIVE SortNewestFirst(_)
SortNewestFirst(jobs) ==
  IF jobs = <<>> THEN <<>>
  ELSE InsertNewestFirst(jobs[Len(jobs)],
                         SortNewestFirst(SubSeq(jobs, 1, Len(jobs) - 1)))

\* jobKeys.slice(0, limit)
Slice(keys, limit) ==
  SubSeq(keys, 1, IF limit < Len(keys) THEN limit ELSE Len(keys))

\* the jobs getJobsByStatus(status, limit) returns when redis.keys returns
\* jobKeys
JobsByStatus(status, limit, jobKeys) ==
  LET read == [i \in 1..Len(Slice(jobKeys, limit)) |-> Get(jobKeys[i])]
      IsStatus(job) == job.status = status
  IN SortNewestFirst(SelectSeq(read, IsStatus))

\* getJobsByStatus(status, limit)
GetJobsByStatus(p, status, limit) ==
  /\ Ready(p)
  /\ \E jobKeys \in KeysOrders(StoredIds) :
       LET jobs == JobsByStatus(status, limit, jobKeys)
       IN proc' = [proc EXCEPT ![p] =
            [Done(Begin(p, "jobsByStatus", "done"), "jobs") EXCEPT
               !.arg = status, !.limit = limit,
               !.out = [i \in 1..Len(jobs) |-> jobs[i].id]]]
  /\ UNCHANGED <<now, rec, idx, lock, circuit, dedup, cooldown>>
  /\ UNCHANGED ghosts

----------------------------------------------------------------------------
(* cron: processQueue *)

RECURSIVE TotalFrom(_, _)
TotalFrom(ix, i) ==
  IF i > Len(JobType) THEN 0 ELSE ZCard(ix[JobType[i]]) + TotalFrom(ix, i + 1)

\* getQueueStats().total: the sum of the indexes' cardinalities
StatsTotal(ix) == TotalFrom(ix, 1)

\* the values of process.env.MAX_JOBS_PER_RUN: not set, or '1'
EnvMaxJobsPerRun == {"", "1"}

\* parseInt(process.env.MAX_JOBS_PER_RUN || '10', 10)
MaxJobsPerRun(env) == IF env = "1" THEN 1 ELSE MAX_JOBS_PER_RUN

\* processQueue is invoked on an instance whose environment has env
CronStartEnv(p, env) ==
  /\ Ready(p)
  /\ proc' = [proc EXCEPT ![p] =
       [Begin(p, "cron", "q_stats") EXCEPT !.maxJobsPerRun = MaxJobsPerRun(env)]]
  /\ UNCHANGED <<now, rec, idx, lock, circuit, dedup, cooldown>>
  /\ UNCHANGED ghosts

\* processQueue is invoked with MAX_JOBS_PER_RUN not set
CronStart(p) == CronStartEnv(p, "")

\* `if (stats.total === 0) return`, else the loop over the queue types starts
QStats(p) ==
  /\ proc[p].pc = "q_stats"
  /\ proc' = [proc EXCEPT ![p] =
       IF StatsTotal(idx) = 0
       THEN CronReturn(@, "No jobs to process")
       ELSE [@ EXCEPT !.pc = "dq_zrange", !.ti = 1, !.n = 0]]
  /\ UNCHANGED <<now, rec, idx, lock, circuit, dedup, cooldown>>
  /\ UNCHANGED ghosts

----------------------------------------------------------------------------
(* cron: the handler of the endpoint, performCleanup, lib/queue.js cleanupOldJobs *)

\* the values of process.env.CRON_SECRET: not set, or a secret
CronSecrets == {"", "s3cret"}
\* the values of the x-cron-secret header and of the secret query parameter:
\* absent, the secret, or something else
SuppliedSecrets == {"", "s3cret", "guess"}
\* the values of the action query parameter ("" when it is absent)
CronActions == {"", "process", "cleanup", "all", "other"}

\* a request reaches the cron handler
CronRequest(p, header, query, expected, action) ==
  /\ Ready(p)
  /\ proc' = [proc EXCEPT ![p] =
       [Begin(p, "cronRequest", "auth") EXCEPT
          !.req = [header |-> header, query |-> query, expected |-> expected,
                   action |-> action]]]
  /\ UNCHANGED <<now, rec, idx, lock, circuit, dedup, cooldown>>
  /\ UNCHANGED ghosts

\* req.headers['x-cron-secret'] || req.query.secret
CronSecretOf(req) == IF req.header # "" THEN req.header ELSE req.query

\* a handler that lets every request through
CronAuthOpen(p) ==
  /\ proc[p].pc = "auth"
  /\ proc' = [proc EXCEPT ![p] =
       [Begin(p, "cron", "q_stats") EXCEPT
          !.req = proc[p].req, !.maxJobsPerRun = MAX_JOBS_PER_RUN]]
  /\ UNCHANGED <<now, rec, idx, lock, circuit, dedup, cooldown>>
  /\ UNCHANGED ghosts

\* `if (expectedSecret && cronSecret !== expectedSecret)` 401; then
\* `req.query.action || 'process'` and the switch over it
CronAuth(p) ==
  /\ proc[p].pc = "auth"
  /\ LET req == proc[p].req
         action == IF req.action = "" THEN "process" ELSE req.action
     IN proc' = [proc EXCEPT ![p] =
          IF req.expected # "" /\ CronSecretOf(req) # req.expected
          THEN Done(@, "401")
          ELSE IF action \in {"process", "all"}
          THEN [Begin(p, "cron", "q_stats") EXCEPT
                  !.req = req, !.maxJobsPerRun = MAX_JOBS_PER_RUN]
          ELSE IF action = "cleanup"
          THEN [Begin(p, "cleanup", "cleanup") EXCEPT
                  !.req = req, !.olderThan = CLEANUP_OLDER_THAN]
          ELSE Done(@, "400")]
  /\ UNCHANGED <<now, rec, idx, lock, circuit, dedup, cooldown>>
  /\ UNCHANGED ghosts

\* a cleanup that looks at the age of a record only
CleanedUpAnyStatus(job, olderThan, t) ==
  job.createdAt < t - (olderThan * MS_PER_SECOND)

\* cleanupOldJobs: the record is completed, failed or cancelled and was
\* created before cutoffTime = Date.now() - olderThan * 1000
CleanedUp(job, olderThan, t) ==
  /\ job.status \in {JobStatus.COMPLETED, JobStatus.FAILED, JobStatus.CANCELLED}
  /\ job.createdAt < t - (olderThan * MS_PER_SECOND)

\* cleanupOldJobs(olderThan) is called
CleanupOldJobs(p, olderThan) ==
  /\ Ready(p)
  /\ proc' = [proc EXCEPT ![p] =
       [Begin(p, "cleanupOldJobs", "cleanup") EXCEPT !.olderThan = olderThan]]
  /\ UNCHANGED <<now, rec, idx, lock, circuit, dedup, cooldown>>
  /\ UNCHANGED ghosts

\* cleanupOldJobs: redis.keys, then for each key redis.get and, for an old
\* record, redis.del; `return cleaned` (to performCleanup or to the caller)
Cleanup(p) ==
  /\ proc[p].pc = "cleanup"
  /\ LET old == {id \in JobIds :
                   /\ Get(id) # NoRec
                   /\ CleanedUp(Get(id), proc[p].olderThan, now)}
     IN /\ rec' = [id \in JobIds |-> IF id \in old THEN NoRec ELSE rec[id]]
        /\ proc' = [proc EXCEPT ![p] =
             [Done(@, "cleaned") EXCEPT !.olderThan = proc[p].olderThan,
                                        !.cleaned = Cardinality(old)]]
  /\ UNCHANGED <<now, idx, lock, circuit, dedup, cooldown>>
  /\ UNCHANGED ghosts

----------------------------------------------------------------------------
(* The environment *)

\* d milliseconds pass
Tick(d, horizon) ==
  /\ now + d <= horizon
  /\ now' = now + d
  /\ UNCHANGED <<rec, idx, lock, circuit, dedup, cooldown, proc>>
  /\ UNCHANGED ghosts

----------------------------------------------------------------------------
(* Specifications *)

\* nothing stored but the circuit record c, left by f recorded failures
InitWith(c, f) ==
  /\ now = 0
  /\ rec = [i \in JobIds |-> NoRec]
  /\ idx = [t \in QueueKeys |-> {}]
  /\ lock = NoLock
  /\ circuit = c
  /\ dedup = {}
  /\ cooldown = NoCooldown
  /\ proc = [p \in Procs |-> Idle]
  /\ gElig = [i \in JobIds |-> 0]
  /\ gOrigin = [i \in JobIds |-> "none"]
  /\ gLeases = [i \in JobIds |-> 0]
  /\ gExec = [i \in JobIds |-> 0]
  /\ gOk = [i \in JobIds |-> 0]
  /\ gFails = f
  /\ gIds = {}

Init == InitWith(NoCircuit, 0)

\* enqueueJob called with options drawn from the given sets, while fewer than
\* limit jobs exist
Enqueue(p, types, priorities, delays, mopts, limit) ==
  \/ \E id \in JobIds, type \in types, payload \in Payloads,
        priority \in priorities, delay \in delays, m \in mopts :
       /\ Cardinality(gIds) < limit
       /\ EnqueueSet(p, id, type, payload, priority, delay, m)
  \/ EnqueueZAdd(p)

Cancel(p) ==
  \/ \E id \in CallerIds : CancelStart(p, id)
  \/ CnGet(p)
  \/ CnZRem(p)

Retry(p) ==
  \/ \E id \in CallerIds : RetryStart(p, id)
  \/ RtGet(p)
  \/ RtZAdd(p)
  \/ RtSet(p)

Dequeue(p) == DqZRange(p) \/ DqZRem(p) \/ DqGet(p) \/ DqSet(p)

ProcessJob(p) ==
  \/ \E ok \in BOOLEAN : Execute(p, ok)
  \/ UjsGet(p)
  \/ UjsZAdd(p)
  \/ UjsSet(p)

Single(p, qts) ==
  \/ \E qt \in qts : SingleStart(p, qt)
  \/ CbGet(p) \/ CbDel(p)
  \/ LkAcquire(p) \/ LkCheck(p) \/ Wake(p)
  \/ DdExists(p) \/ DdSet(p)
  \/ CdGet(p) \/ CdSet(p)
  \/ CbReset(p) \/ CfGet(p) \/ CfSet(p)
  \/ LockDel(p)

\* the worker's action 'process' with count and queueType of the request body
Batch(p, counts, qts) ==
  \/ \E count \in counts, qt \in qts : BatchStart(p, count, qt)
  \/ CbGet(p) \/ CbDel(p)
  \/ LkAcquire(p) \/ LkCheck(p) \/ Wake(p)
  \/ DdExists(p) \/ DdSet(p)
  \/ CdGet(p) \/ CdSet(p)
  \/ CbReset(p) \/ CfGet(p) \/ CfSet(p)
  \/ LockDel(p)

Cron(p) == CronStart(p) \/ QStats(p)

\* processQueue with the environment's MAX_JOBS_PER_RUN
CronEnv(p) == (\E env \in EnvMaxJobsPerRun : CronStartEnv(p, env)) \/ QStats(p)

\* One handler at a time on one instance: the scheduler as its callers see it
\* when nothing else runs.  Jobs are leased and run by cron runs.
Next ==
  \/ \E p \in {"i1"} :
        \/ Enqueue(p, {"send_message"}, Priorities, Delays, MaxAttemptsOptions,
                   MaxJobs)
        \/ Cancel(p)
        \/ Cron(p)
        \/ Dequeue(p)
        \/ ProcessJob(p)
  \/ Tick(MS_PER_SECOND, MaxTicks * MS_PER_SECOND)

Spec == Init /\ [][Next]_vars

\* Worker cycles, one at a time on one instance.  The circuit record of the
\* initial state is any record that earlier failed cycles can have left.
InitialFailures == {0, 3, 4}

InitWorker ==
  \E f \in InitialFailures :
    InitWith(IF f = 0 THEN NoCircuit
             ELSE [state |-> "HALF_OPEN", failures |-> f, lastFailure |-> 0,
                   exp |-> FailureRecord(NoCircuit, FALSE, 0).exp], f)

WorkerTickSteps == {10000, 30000}

NextWorker ==
  \/ \E p \in {"i1"} :
        \/ Enqueue(p, {"send_message"}, {0}, {0}, MaxAttemptsOptions, MaxJobs)
        \/ Single(p, {"all"})
        \/ Dequeue(p)
        \/ ProcessJob(p)
  \/ \E d \in WorkerTickSteps : Tick(d, WorkerHorizon * MS_PER_SECOND)

SpecWorker == InitWorker /\ [][NextWorker]_vars

\* The circuit record of the initial state is absent, or an OPEN record whose
\* last failure lies CIRCUIT_TIMEOUT_MS before the model's time 0.
StaleOpen ==
  [state |-> "OPEN", failures |-> CIRCUIT_FAILURE_THRESHOLD,
   lastFailure |-> 0 - CIRCUIT_TIMEOUT_MS,
   exp |-> FailureRecord(NoCircuit, FALSE, 0 - CIRCUIT_TIMEOUT_MS).exp]

InitConc ==
  \/ InitWith(NoCircuit, 0)
  \/ InitWith(StaleOpen, CIRCUIT_FAILURE_THRESHOLD)

\* Two instances whose handlers interleave command by command, each running
\* worker cycles; jobs are enqueued through the first.
NextLock ==
  \/ Enqueue("i1", {"send_message"}, {0}, {0}, MaxAttemptsOptions, ConcJobs)
  \/ \E p \in Procs :
        \/ Single(p, {"send_message"})
        \/ Dequeue(p)
        \/ ProcessJob(p)
  \/ Tick(MS_PER_SECOND, ConcHorizon * MS_PER_SECOND)

SpecLock == InitConc /\ [][NextLock]_vars

\* Two instances running worker cycles, one of which can last as long as the
\* lease of the lock record.
NextLease ==
  \/ Enqueue("i1", {"send_message"}, {0}, {0}, MaxAttemptsOptions, ConcJobs)
  \/ \E p \in Procs :
        \/ Single(p, {"send_message"})
        \/ Dequeue(p)
        \/ ProcessJob(p)
  \/ Tick(LOCK_EX_SECONDS * MS_PER_SECOND, LeaseHorizon * MS_PER_SECOND)

SpecLease == InitConc /\ [][NextLease]_vars

\* Two instances whose handlers interleave command by command: the first runs
\* single worker cycles (and enqueues), the second runs batches.  The circuit
\* record of the initial state is an OPEN record whose timeout has passed, or
\* one that counts one failure less than the threshold.
GateInitialFailures == CIRCUIT_FAILURE_THRESHOLD - 1
BatchCounts == {2}

InitGate ==
  \/ InitWith(StaleOpen, CIRCUIT_FAILURE_THRESHOLD)
  \/ InitWith([state |-> "HALF_OPEN", failures |-> GateInitialFailures,
               lastFailure |-> 0,
               exp |-> FailureRecord(NoCircuit, FALSE, 0).exp],
              GateInitialFailures)

NextGate ==
  \/ Enqueue("i1", {"send_message"}, {0}, {0}, MaxAttemptsOptions, ConcJobs)
  \/ Single("i1", {"send_message"})
  \/ Batch("i2", BatchCounts, {"send_message"})
  \/ \E p \in Procs :
        \/ Dequeue(p)
        \/ ProcessJob(p)
  \/ Tick(MS_PER_SECOND, ConcHorizon * MS_PER_SECOND)

SpecGate == InitGate /\ [][NextGate]_vars

\* Two instances whose handlers interleave command by command: the first runs
\* worker cycles (and enqueues), the second runs the cron's processQueue.
NextRace ==
  \/ Enqueue("i1", {"send_message"}, {0}, {0}, MaxAttemptsOptions, ConcJobs)
  \/ Single("i1", {"send_message"})
  \/ Cron("i2")
  \/ \E p \in Procs :
        \/ Dequeue(p)
        \/ ProcessJob(p)
  \/ Tick(MS_PER_SECOND, RaceHorizon * MS_PER_SECOND)

SpecRace == InitConc /\ [][NextRace]_vars

OpsMaxAttemptsOptions == {0, 1}   \* options.maxAttempts: not given, or 1

\* The scheduler's operations called one at a time over days: enqueueJob,
\* cancelJob, retryJob, and jobs leased and run by worker cycles.
NextOps ==
  \/ \E p \in {"i1"} :
        \/ Enqueue(p, {"send_message"}, Priorities, {0}, OpsMaxAttemptsOptions,
                   MaxJobs)
        \/ Cancel(p)
        \/ Retry(p)
        \/ Single(p, {"send_message"})
        \/ Dequeue(p)
        \/ ProcessJob(p)
  \/ Tick(JOB_TTL * MS_PER_SECOND, OpsDays * JOB_TTL * MS_PER_SECOND)

SpecOps == InitConc /\ [][NextOps]_vars

----------------------------------------------------------------------------
(* Claims about the scheduler, one handler at a time (Spec) *)

\* dequeueJob has read the index and picked job j; the index is as it read it
Picked(p, j) == proc[p].pc = "dq_zrem" /\ proc[p].jid = j

\* dequeueJob has returned job j to p, which has not yet finished with it
Holding(p, j) ==
  /\ proc[p].jid = j
  /\ proc[p].pc \in {"dd_exists", "dd_set", "cd_get", "cd_sleep", "exec"}

\* the jobs that were in the index of p's type beside the one p picked
Rivals(p) == Members(CurType(proc[p])) \ {proc[p].jid}

\* C2: among jobs of one type enqueued with distinct priorities and the same
\* eligibility time, dequeueJob picks the one of highest priority: whenever it
\* picks j, every such rival still in the index has a lower priority than j.
C2_PriorityDescending ==
  \A p \in Procs : \A j \in JobIds : Picked(p, j) =>
    \A k \in Rivals(p) :
      (/\ rec[j] # NoRec /\ rec[k] # NoRec
       /\ gOrigin[j] = "enqueue" /\ gOrigin[k] = "enqueue"
       /\ gElig[j] = gElig[k]
       /\ rec[j].priority # rec[k].priority)
      => rec[j].priority > rec[k].priority

\* C3: a job enqueued at t with a delay of D seconds is not returned by
\* dequeueJob before t + D: whoever holds a job whose index entry was written
\* by enqueueJob holds it at or after the entry's eligibility time.
C3_DelayHonoured ==
  \A p \in Procs : \A j \in JobIds :
    (Holding(p, j) /\ gOrigin[j] = "enqueue") => now >= gElig[j]

\* C4: among jobs of one type with equal priority, dequeueJob picks the one
\* whose eligibility time is the earliest: whenever it picks j, no rival of the
\* same priority still in the index became eligible before j.
C4_FifoAmongEqualPriority ==
  \A p \in Procs : \A j \in JobIds : Picked(p, j) =>
    \A k \in Rivals(p) :
      (/\ rec[j] # NoRec /\ rec[k] # NoRec
       /\ rec[j].priority = rec[k].priority)
      => gElig[j] <= gElig[k]

\* What holds of the code for C4: the order is kept among index entries written
\* by enqueueJob (the retry entry of updateJobStatus drops the priority weight).
C4_FifoAmongEnqueued ==
  \A p \in Procs : \A j \in JobIds : Picked(p, j) =>
    \A k \in Rivals(p) :
      (/\ rec[j] # NoRec /\ rec[k] # NoRec
       /\ gOrigin[j] = "enqueue" /\ gOrigin[k] = "enqueue"
       /\ rec[j].priority = rec[k].priority)
      => gElig[j] <= gElig[k]

\* C6: after a failed execution that leaves attempts < maxAttempts the job is
\* leased again only at failure time + 2^attempts seconds or later: whoever
\* holds a job whose index entry was written by the retry logic holds it at or
\* after that time.
C6_BackoffHonoured ==
  \A p \in Procs : \A j \in JobIds :
    (Holding(p, j) /\ gOrigin[j] = "retry") => now >= gElig[j]

\* C10: cancelJob on a pending job returns true, leaves the job out of every
\* index with status cancelled, and no dequeueJob picks it afterwards; it
\* returns false only for a job that is missing or not pending.
C10_CancelPending ==
  /\ \A p \in Procs :
       (proc[p].kind = "cancel" /\ proc[p].pc = "done") =>
         LET j == proc[p].jid IN
         IF proc[p].res = "true"
         THEN rec[j].status = JobStatus.CANCELLED /\ ~Indexed(j)
         ELSE rec[j] = NoRec \/ rec[j].status # JobStatus.PENDING
  /\ \A j \in JobIds :
       (rec[j] # NoRec /\ rec[j].status = JobStatus.CANCELLED) =>
         /\ ~Indexed(j)
         /\ \A p \in Procs : ~Picked(p, j) /\ ~Holding(p, j)

\* cancelJob has returned true
C10_Witness ==
  \E p \in Procs :
    /\ proc[p].kind = "cancel" /\ proc[p].pc = "done" /\ proc[p].res = "true"
    /\ rec[proc[p].jid].status = JobStatus.CANCELLED

\* C11: cancelJob on a job that is processing, completed, failed or cancelled,
\* or on an unknown id, returns false and leaves every record and every index
\* as they were: the step of cancelJob that reads such a record is its last,
\* and no cancelJob that ends with false has written anything.
C11_CancelRefused ==
  [][\A p \in Procs :
       (/\ proc[p].pc = "cn_get" /\ proc'[p] # proc[p]
        /\ (Get(proc[p].jid) = NoRec
             \/ Get(proc[p].jid).status # JobStatus.PENDING))
       => /\ proc'[p].pc = "done" /\ proc'[p].res = "false"
          /\ rec' = rec /\ idx' = idx]_vars

\* cancelJob has returned false for a job that had reached a terminal status
C11_Witness ==
  \E p \in Procs :
    /\ proc[p].kind = "cancel" /\ proc[p].pc = "done" /\ proc[p].res = "false"
    /\ rec[proc[p].jid] # NoRec
    /\ rec[proc[p].jid].status \in {JobStatus.COMPLETED, JobStatus.FAILED}

\* C17: every Executor invocation, whether of a worker cycle or of the cron
\* handler, happens while the invoking cycle holds the lock record and after
\* a breaker check that found the breaker not open: a handler about to call
\* processJob is a worker cycle (which checked the breaker and acquired the
\* lock) and the lock record is present.
C17_ExecutorGuarded ==
  \A p \in Procs :
    proc[p].pc = "exec"
    => proc[p].kind \in {"single", "batch"} /\ LockPresent

\* C21: whatever their eligibility times (enqueue time and delay), a job of
\* higher priority is dequeued before a job of the same type with lower
\* priority when both are in the index: whenever dequeueJob picks j, no rival
\* still in the index has a higher priority than j.
C21_PriorityDominates ==
  \A p \in Procs : \A j \in JobIds : Picked(p, j) =>
    \A k \in Rivals(p) :
      (/\ rec[j] # NoRec /\ rec[k] # NoRec
       /\ gOrigin[j] = "enqueue" /\ gOrigin[k] = "enqueue")
      => rec[j].priority >= rec[k].priority

\* Worker cycles (single and batch), one at a time, with store commands that
\* can fail
NextFault ==
  \/ \E p \in {"i1"} :
        \/ Enqueue(p, {"send_message"}, {0}, {0}, MaxAttemptsOptions, ConcJobs)
        \/ Single(p, {"send_message"})
        \/ Batch(p, BatchCounts, {"send_message"})
        \/ Dequeue(p)
        \/ ProcessJob(p)
        \/ DqThrow(p)
        \/ UjsThrow(p)
  \/ Tick(MS_PER_SECOND, ConcHorizon * MS_PER_SECOND)

SpecFault == InitConc /\ [][NextFault]_vars

\* Two instances running worker cycles, one of which can last as long as the
\* lease of the lock record, after earlier failures
SpecLeaseBreaker == InitGate /\ [][NextLease]_vars

\* Two instances whose handlers interleave command by command: the first runs
\* worker cycles (and enqueues), the second calls cancelJob.
NextCancelRace ==
  \/ Enqueue("i1", {"send_message"}, {0}, {0}, MaxAttemptsOptions, ConcJobs)
  \/ Single("i1", {"send_message"})
  \/ Cancel("i2")
  \/ \E p \in Procs :
        \/ Dequeue(p)
        \/ ProcessJob(p)
  \/ Tick(MS_PER_SECOND, RaceHorizon * MS_PER_SECOND)

SpecCancelRace == InitConc /\ [][NextCancelRace]_vars

\* Worker cycles, one at a time on one instance, that keep being triggered,
\* each after the previous cycle's release of the lock has reached the store
\* (so that no cycle has to wait for the lock): every handler that has a step
\* to take takes it, and the clock advances up to the horizon.
LiveCycle(p) ==
  \/ ~proc[p].rel /\ SingleStart(p, "send_message")
  \/ CbGet(p) \/ CbDel(p)
  \/ LkAcquire(p)
  \/ DdExists(p) \/ DdSet(p)
  \/ CdGet(p) \/ CdSet(p)
  \/ CbReset(p) \/ CfGet(p) \/ CfSet(p)
  \/ Dequeue(p)
  \/ ProcessJob(p)

NextLive ==
  \/ Enqueue("i1", {"send_message"}, {0}, {0}, MaxAttemptsOptions, ConcJobs)
  \/ LiveCycle("i1")
  \/ LockDel("i1")
  \/ Tick(MS_PER_SECOND, ConcHorizon * MS_PER_SECOND)

FairLive ==
  /\ WF_vars(Enqueue("i1", {"send_message"}, {0}, {0}, MaxAttemptsOptions,
                     ConcJobs))
  /\ WF_vars(LiveCycle("i1"))
  /\ WF_vars(LockDel("i1"))
  /\ WF_vars(Tick(MS_PER_SECOND, ConcHorizon * MS_PER_SECOND))

SpecLive == InitConc /\ [][NextLive]_vars /\ FairLive

\* Two instances that keep running worker cycles on an empty queue, so that
\* each finds the lock held by the other again and again; the clock advances
\* by the retry delay up to the horizon.
LockCycle(p) ==
  \/ SingleStart(p, "send_message")
  \/ CbGet(p) \/ CbDel(p)
  \/ LkAcquire(p) \/ LkCheck(p) \/ Wake(p)
  \/ DqZRange(p)

NextWait ==
  \/ \E p \in Procs : LockCycle(p) \/ LockDel(p)
  \/ Tick(LOCK_RETRY_DELAY_MS, ConcHorizon * MS_PER_SECOND)

SpecWait == InitConc /\ [][NextWait]_vars

\* cleanupOldJobs called with an age in seconds, between enqueues, cancels and
\* worker cycles, one handler at a time on one instance
CleanupAges == {0, 1}

NextCleanup ==
  \/ \E p \in {"i1"} :
        \/ Enqueue(p, {"send_message"}, {0}, {0}, OpsMaxAttemptsOptions, MaxJobs)
        \/ Cancel(p)
        \/ Single(p, {"send_message"})
        \/ Dequeue(p)
        \/ ProcessJob(p)
        \/ \E olderThan \in CleanupAges : CleanupOldJobs(p, olderThan)
        \/ Cleanup(p)
  \/ Tick(MS_PER_SECOND, MaxTicks * MS_PER_SECOND)

SpecCleanup == InitConc /\ [][NextCleanup]_vars

\* Batches, one at a time, over up to BatchJobs jobs; the clock advances by
\* the extra delay of a send_message job
BatchSizes == {2, 4}

NextBatch ==
  \/ \E p \in {"i1"} :
        \/ Enqueue(p, {"send_message"}, {0}, {0}, MaxAttemptsOptions, BatchJobs)
        \/ Batch(p, BatchSizes, {"send_message"})
        \/ Dequeue(p)
        \/ ProcessJob(p)
  \/ Tick(SEND_MESSAGE_EXTRA_DELAY_MS, BatchHorizon * MS_PER_SECOND)

SpecBatch == InitGate /\ [][NextBatch]_vars

\* Requests to the cron endpoint, one at a time
CronEndpoint(p) ==
  \/ \E header \in SuppliedSecrets, query \in SuppliedSecrets,
        expected \in CronSecrets, action \in CronActions :
       CronRequest(p, header, query, expected, action)
  \/ CronAuth(p)
  \/ QStats(p)
  \/ Cleanup(p)

NextEndpoint ==
  \/ \E p \in {"i1"} :
        \/ Enqueue(p, {"send_message"}, {0}, {0}, MaxAttemptsOptions, MaxJobs)
        \/ CronEndpoint(p)
        \/ Dequeue(p)
        \/ ProcessJob(p)
  \/ Tick(MS_PER_SECOND, MaxTicks * MS_PER_SECOND)

SpecEndpoint == Init /\ [][NextEndpoint]_vars

\* C23: when CRON_SECRET is configured, a cron request whose secret (the
\* x-cron-secret header, or the secret query value when there is no header)
\* does not equal it is answered 401 at once, with no dequeue, no Executor
\* invocation and no deletion; so whatever work the endpoint does is done for
\* a request that carried the secret or while none is configured.
C23_Unauthorized ==
  /\ [][\A p \in Procs :
          LET req == proc[p].req IN
          (/\ proc[p].pc = "auth" /\ proc'[p].pc # proc[p].pc
           /\ req.expected # ""
           /\ (IF req.header # "" THEN req.header ELSE req.query) # req.expected)
          => /\ proc'[p].pc = "done" /\ proc'[p].res = "401"
             /\ rec' = rec /\ idx' = idx
             /\ gExec' = gExec /\ gLeases' = gLeases]_vars
  /\ [](\A p \in Procs :
          (proc[p].kind \in {"cron", "cleanup"} /\ proc[p].pc # "done")
          => \/ proc[p].req.expected = ""
             \/ proc[p].req.header = proc[p].req.expected
             \/ (proc[p].req.header = ""
                 /\ proc[p].req.query = proc[p].req.expected))

\* a request without the secret was answered 401 while a job waited in the index
C23_Witness ==
  \E p \in Procs :
    /\ proc[p].kind = "cronRequest" /\ proc[p].pc = "done"
    /\ proc[p].res = "401"
    /\ \E j \in JobIds :
         /\ rec[j] # NoRec /\ rec[j].status = JobStatus.PENDING /\ Indexed(j)

\* Status queries between enqueues and cron runs, one at a time
QueryStatuses == {JobStatus.PENDING, JobStatus.COMPLETED}
QueryLimits == {1, 2}

NextQuery ==
  \/ \E p \in {"i1"} :
        \/ Enqueue(p, {"send_message"}, {0}, {0}, MaxAttemptsOptions, MaxJobs)
        \/ Cron(p)
        \/ Dequeue(p)
        \/ ProcessJob(p)
        \/ \E status \in QueryStatuses, limit \in QueryLimits :
             GetJobsByStatus(p, status, limit)
  \/ Tick(MS_PER_SECOND, MaxTicks * MS_PER_SECOND)

SpecQuery == Init /\ [][NextQuery]_vars

\* the number of stored records with status st
CountStatus(st) ==
  Cardinality({id \in StoredIds : Get(id).status = st})

\* C22: getJobsByStatus(status, limit) returns only records whose status is
\* the argument, newest first by createdAt, and min(limit, m) of them, where
\* m is the number of stored records with that status.
C22_JobsByStatus ==
  \A p \in Procs :
    (proc[p].kind = "jobsByStatus" /\ proc[p].pc = "done")
    => LET out == proc[p].out
           m == CountStatus(proc[p].arg)
       IN /\ \A i \in 1..Len(out) : Get(out[i]).status = proc[p].arg
          /\ \A i, k \in 1..Len(out) :
               i < k => Get(out[i]).createdAt >= Get(out[k]).createdAt
          /\ Len(out) = IF proc[p].limit < m THEN proc[p].limit ELSE m

\* Cron runs, one at a time, over jobs of two types
NextCron ==
  \/ \E p \in {"i1"} :
        \/ Enqueue(p, {"send_message", "broadcast"}, {0}, {0},
                   MaxAttemptsOptions, MaxJobs)
        \/ CronEnv(p)
        \/ Dequeue(p)
        \/ ProcessJob(p)
  \/ Tick(MS_PER_SECOND, MaxTicks * MS_PER_SECOND)

SpecCron == Init /\ [][NextCron]_vars

\* C20: one cron run dequeues and processes at most MAX_JOBS_PER_RUN jobs in
\* total, counted across all job types.
C20_RunBounded ==
  \A p \in Procs :
    proc[p].kind = "cron" => proc[p].processed <= proc[p].maxJobsPerRun

\* The callers of enqueueJob: the POST /api/jobs route, testQueue, and a
\* direct call of the exported function with any type and payload; cron runs
\* consume the indexes.
NextApi ==
  \/ \E p \in {"i1"} :
        \/ \E id \in JobIds, type \in QueueKeys \cup {Absent},
              payload \in Payloads \cup {Absent}, priority \in Priorities :
             /\ Cardinality(gIds) < MaxJobs
             /\ PostJobs(p, id, type, payload, priority, 0, 0)
        \/ \E id \in JobIds :
             Cardinality(gIds) < MaxJobs /\ TestQueue(p, id)
        \/ \E id \in JobIds, type \in QueueKeys,
              payload \in Payloads \cup {Absent} :
             /\ Cardinality(gIds) < MaxJobs
             /\ EnqueueSet(p, id, type, payload, 0, 0, 0)
        \/ EnqueueZAdd(p)
        \/ Cancel(p)
        \/ Cron(p)
        \/ Dequeue(p)
        \/ ProcessJob(p)
  \/ Tick(MS_PER_SECOND, MaxTicks * MS_PER_SECOND)

SpecApi == Init /\ [][NextApi]_vars

----------------------------------------------------------------------------
(* Claims about the callers of enqueueJob (SpecApi) *)

\* C14: enqueueJob fails with InvalidJobType when type is none of the known
\* job types and with MissingPayload when payload is absent, and writes no
\* job record and no index entry: no record has an unknown type or lacks a
\* payload, and no index of an unknown type has an entry.
C14_EnqueueValidated ==
  /\ \A j \in JobIds :
       rec[j] # NoRec => rec[j].type \in JobTypes /\ rec[j].payload # Absent
  /\ \A t \in UnknownTypes : idx[t] = {}

----------------------------------------------------------------------------
(* Claims about the scheduler's operations, one at a time (SpecOps) *)

\* C12, the steps: retryJob that reads a failed record goes on; its zadd leaves
\* the id in its type's index with score priority * 1000000 + now; its set
\* leaves the record pending with attempts 0, no error and its priority, and
\* the call returns true.
C12_RetryStep ==
  \A p \in Procs :
    LET j == proc[p].jid IN
    /\ (/\ proc[p].pc = "rt_get" /\ proc'[p].pc # proc[p].pc
        /\ Get(j) # NoRec /\ Get(j).status = JobStatus.FAILED)
       => proc'[p].pc = "rt_zadd"
    /\ (proc[p].pc = "rt_zadd" /\ proc'[p].pc # proc[p].pc)
       => <<(rec[j].priority * PRIORITY_WEIGHT) + now, j>> \in idx'[rec[j].type]
    /\ (proc[p].pc = "rt_set" /\ proc'[p].pc # proc[p].pc)
       => /\ proc'[p].pc = "done" /\ proc'[p].res = "true"
          /\ rec'[j].status = JobStatus.PENDING
          /\ rec'[j].attempts = 0 /\ rec'[j].error = "none"
          /\ rec'[j].priority = rec[j].priority
          /\ \E e \in idx'[rec[j].type] : e[2] = j

\* C12: retryJob on a failed job returns true, resets attempts to 0, clears
\* error, sets status pending and re-inserts the id into its type's index with
\* score priority weight + now; when it has returned true the job is pending
\* and indexed, so a later dequeueJob can return it.
C12_Retry ==
  /\ [][C12_RetryStep]_vars
  /\ [](\A p \in Procs :
          (proc[p].kind = "retry" /\ proc[p].pc = "done" /\ proc[p].res = "true")
          => /\ rec[proc[p].jid].status = JobStatus.PENDING
             /\ rec[proc[p].jid].attempts = 0
             /\ proc[p].jid \in Members(rec[proc[p].jid].type))

\* a job that retryJob re-inserted has been returned by a later dequeueJob
C12_Witness ==
  \E p \in Procs : \E j \in JobIds :
    /\ Holding(p, j) /\ gOrigin[j] = "retryJob"
    /\ rec[j].status = JobStatus.PROCESSING

\* C13: retryJob on a job that is not failed (pending, pending after an
\* automatic retry, processing, completed, cancelled), or on an unknown id,
\* returns false and leaves every record and every index as they were.
C13_RetryRefused ==
  [][\A p \in Procs :
       (/\ proc[p].pc = "rt_get" /\ proc'[p].pc # proc[p].pc
        /\ (Get(proc[p].jid) = NoRec
             \/ Get(proc[p].jid).status # JobStatus.FAILED))
       => /\ proc'[p].pc = "done" /\ proc'[p].res = "false"
          /\ rec' = rec /\ idx' = idx]_vars

\* retryJob has returned false for a job that is pending after an automatic retry
C13_Witness ==
  \E p \in Procs :
    /\ proc[p].kind = "retry" /\ proc[p].pc = "done" /\ proc[p].res = "false"
    /\ rec[proc[p].jid] # NoRec
    /\ rec[proc[p].jid].status = JobStatus.PENDING
    /\ rec[proc[p].jid].attempts >= 1

\* C18: when no operation is in flight, a job id is a member of its type's
\* index if and only if its record exists with status pending.
C18_IndexedIffPending ==
  (\A p \in Procs : Ready(p))
  => \A j \in JobIds :
       Indexed(j) <=> (Get(j) # NoRec /\ Get(j).status = JobStatus.PENDING)

----------------------------------------------------------------------------
(* Claims about the gates of a worker cycle (SpecGate) *)

\* the pcs of a worker cycle up to the return of waitForLock
GatePcs == {"cb_get", "cb_del", "lk_acquire", "lk_check", "lk_sleep"}

GateResults ==
  {"Circuit breaker open - try again later",
   "Another instance is processing, try again later"}

\* C16, the steps: a step of a worker cycle (single or batch) that has not got
\* past waitForLock changes no job record and no index; a cycle returns one of
\* the two results only from there, without a job; and a cycle that got past
\* waitForLock never comes back before it.
C16_GateStep ==
  \A p \in Procs :
    (proc[p].kind \in {"single", "batch"} /\ proc'[p].pc # proc[p].pc)
    => /\ proc[p].pc \in GatePcs => rec' = rec /\ idx' = idx
       /\ (proc'[p].pc = "done" /\ proc'[p].res \in GateResults)
          => proc[p].pc \in {"cb_get", "lk_check"} /\ proc'[p].jid = 0
       /\ proc[p].pc \notin GatePcs \cup {"idle", "done"}
          => proc'[p].pc \notin GatePcs

\* C16: a worker cycle (single or batch) that ends with 'Circuit breaker open'
\* or 'Another instance is processing' has changed no job record and no index.
C16_GateFrame == [][C16_GateStep]_vars

\* a single cycle was refused by the breaker and a batch by the lock, while a
\* pending job is indexed
C16_Witness ==
  /\ \E p \in Procs :
       /\ proc[p].kind = "single" /\ proc[p].pc = "done"
       /\ proc[p].res = "Circuit breaker open - try again later"
  /\ \E p \in Procs :
       /\ proc[p].kind = "batch" /\ proc[p].pc = "done"
       /\ proc[p].res = "Another instance is processing, try again later"
  /\ \E j \in JobIds :
       /\ rec[j] # NoRec /\ rec[j].status = JobStatus.PENDING /\ Indexed(j)

----------------------------------------------------------------------------
(* Claims about worker cycles, one at a time (SpecWorker) *)

\* p is inside a handler with job j
Working(p, j) == proc[p].jid = j /\ proc[p].pc \notin {"idle", "done"}

\* C5: a job whose Executor fails on every invocation is executed exactly
\* maxAttempts times and ends failed and out of the index: once such a job is
\* neither indexed nor in the hands of a handler, its status is failed and its
\* attempts and its Executor invocations both equal maxAttempts.
C5_RetriedToExhaustion ==
  \A j \in JobIds :
    (/\ rec[j] # NoRec /\ gOrigin[j] # "none"
     /\ gOk[j] = 0 /\ rec[j].status # JobStatus.CANCELLED
     /\ ~Indexed(j) /\ \A p \in Procs : ~Working(p, j))
    => /\ rec[j].status = JobStatus.FAILED
       /\ rec[j].attempts = rec[j].maxAttempts
       /\ gExec[j] = rec[j].maxAttempts

\* C15, the steps of enqueueJob: the id it generates is fresh, and when it
\* returns the record is readable with status pending and attempts 0 and the
\* id is in its type's index.
C15_EnqueueStep ==
  \A p \in Procs :
    LET j == proc[p].jid IN
    /\ (Ready(p) /\ proc'[p].pc = "enq_zadd")
       => proc'[p].jid \notin gIds /\ rec[proc'[p].jid] = NoRec
    /\ (proc[p].pc = "enq_zadd" /\ proc'[p].pc # proc[p].pc)
       => /\ proc'[p].pc = "done" /\ proc'[p].res = "enqueued"
          /\ proc'[p].jid = j
          /\ rec'[j] # NoRec /\ now' < rec'[j].exp
          /\ rec'[j].status = JobStatus.PENDING /\ rec'[j].attempts = 0
          /\ \E e \in idx'[rec'[j].type] : e[2] = j

\* C15: enqueueJob returns a fresh id whose record is pending with attempts 0
\* and counted in its type's index; when a worker cycle whose Executor
\* succeeded has returned, the job's record is completed with its result
\* stored and the job is out of the index, so that the pending count of its
\* type is 0 when it was the only job.
C15_EnqueueThenComplete ==
  /\ [][C15_EnqueueStep]_vars
  /\ [](\A p \in Procs :
          (proc[p].kind = "single" /\ proc[p].pc = "done"
           /\ proc[p].res = "success")
          => LET j == proc[p].jid IN
             /\ Get(j) # NoRec
             /\ Get(j).status = JobStatus.COMPLETED /\ Get(j).result = "set"
             /\ ~Indexed(j)
             /\ (gIds = {j} => ZCard(idx[rec[j].type]) = 0))

\* the only job there is has been completed by a worker cycle
C15_Witness ==
  \E p \in Procs :
    /\ proc[p].kind = "single" /\ proc[p].pc = "done"
    /\ proc[p].res = "success" /\ gIds = {proc[p].jid}
    /\ rec[proc[p].jid].status = JobStatus.COMPLETED
    /\ StatsTotal(idx) = 0

\* C25: every job leased by a dispatch cycle has left status processing by
\* the time that cycle returns, whatever the cycle reports: when no cycle is
\* in progress, no record has status processing.
C25_NoneLeftProcessing ==
  (\A p \in Procs : Ready(p))
  => \A j \in JobIds :
       Get(j) # NoRec => Get(j).status # JobStatus.PROCESSING

\* the pcs of a worker cycle between the breaker check and its return
PastBreaker ==
  {"lk_acquire", "lk_check", "lk_sleep", "dq_zrange", "dq_zrem", "dq_get",
   "dq_set", "dd_exists", "dd_set", "cd_get", "cd_sleep", "exec", "ujs_get",
   "ujs_zadd", "ujs_set", "cd_set", "cb_reset", "cf_get", "cf_set"}

\* C7, the step: a cycle that has leased a job and finds a live marker for its
\* fingerprint returns 'Duplicate message ignored' with no Executor invocation
\* and the job's attempts unchanged; one that finds none goes on to write the
\* marker, and from there to the cooldown and the Executor.
C7_DedupStep ==
  \A p \in Procs :
    /\ (proc[p].pc = "dd_exists" /\ proc'[p].pc # "dd_exists") =>
         IF DedupExists(DedupKey(proc[p].cur))
         THEN /\ proc'[p].pc = "done"
              /\ proc'[p].res = "Duplicate message ignored"
              /\ gExec' = gExec
              /\ rec'[proc[p].jid].attempts = rec[proc[p].jid].attempts
         ELSE proc'[p].pc = "dd_set"
    /\ (proc[p].pc = "dd_set" /\ proc'[p].pc # "dd_set") =>
         /\ \E m \in dedup' : m.key = DedupKey(proc[p].cur) /\ now < m.exp
         /\ proc'[p].pc = "cd_get"
    /\ (proc[p].pc = "cd_get" /\ proc'[p].pc # "cd_get") =>
         proc'[p].pc \in {"cd_sleep", "exec"}
    /\ (proc[p].pc = "cd_sleep" /\ proc'[p].pc # "cd_sleep") =>
         proc'[p].pc = "exec"

\* C7: a worker cycle that leases a job with a live dedup marker skips the
\* Executor, reports the duplicate and leaves attempts alone; without a marker
\* it writes one and proceeds to execute, so that a worker runs the Executor
\* only on a job whose marker has been written.
C7_Dedup ==
  /\ [][C7_DedupStep]_vars
  /\ [](\A p \in Procs :
         (proc[p].kind = "single" /\ proc[p].pc \in {"cd_get", "cd_sleep", "exec"})
         => \E m \in dedup : m.key = DedupKey(proc[p].cur))

\* a cycle has returned 'Duplicate message ignored' for a job it leased
C7_Witness ==
  \E p \in Procs :
    /\ proc[p].pc = "done" /\ proc[p].res = "Duplicate message ignored"
    /\ proc[p].jid # 0
    /\ DedupExists(DedupKey(rec[proc[p].jid]))

CircuitOpenNow ==
  /\ CircuitPresent /\ circuit.state = "OPEN"
  /\ now - circuit.lastFailure < CIRCUIT_TIMEOUT_MS

\* C8, the step: a cycle that meets the OPEN record less than 30 s after its
\* last failure returns 'circuit breaker open' and has touched neither the lock
\* nor the index nor a record nor the Executor; one that meets it later deletes
\* it and goes on to the lock; one that meets no OPEN record goes on to the lock.
C8_BreakerStep ==
  \A p \in Procs :
    /\ (proc[p].pc = "cb_get" /\ proc'[p].pc # "cb_get") =>
         IF CircuitOpenNow
         THEN /\ proc'[p].pc = "done"
              /\ proc'[p].res = "Circuit breaker open - try again later"
              /\ proc'[p].tries = 0 /\ proc'[p].jid = 0
              /\ lock' = lock /\ idx' = idx /\ rec' = rec
              /\ gExec' = gExec /\ gLeases' = gLeases
         ELSE IF CircuitPresent /\ circuit.state = "OPEN"
         THEN proc'[p].pc = "cb_del"
         ELSE proc'[p].pc = "lk_acquire"
    /\ (proc[p].pc = "cb_del" /\ proc'[p].pc # "cb_del") =>
         /\ circuit' = NoCircuit
         /\ proc'[p].pc = "lk_acquire"

\* C8: after 5 consecutive failures recorded by worker cycles, with no success
\* in between, the circuit record is OPEN (and it is OPEN only then); no cycle
\* is past the breaker check while the record is OPEN; and every cycle takes
\* the breaker check as C8_BreakerStep says.
C8_Breaker ==
  /\ [](gFails >= CIRCUIT_FAILURE_THRESHOLD
          <=> (CircuitPresent /\ circuit.state = "OPEN"))
  /\ [](\A p \in Procs :
          (proc[p].kind = "single" /\ proc[p].pc \in PastBreaker)
            => ~(CircuitPresent /\ circuit.state = "OPEN"))
  /\ [][C8_BreakerStep]_vars

\* five failures have opened the breaker and a cycle has been turned away
C8_Witness ==
  /\ gFails >= CIRCUIT_FAILURE_THRESHOLD
  /\ CircuitOpenNow
  /\ \E p \in Procs :
       /\ proc[p].pc = "done"
       /\ proc[p].res = "Circuit breaker open - try again later"

----------------------------------------------------------------------------
(* Claims about interleaved handlers (SpecRace, SpecLock) *)

\* C1: one index entry is leased at most once: between two insertions of a
\* job into the index, dequeueJob returns the job to at most one caller.
C1_LeasedAtMostOnce ==
  \A j \in JobIds : gLeases[j] <= 1

\* cancelJob has returned true for job j
CancelledTrue(j) ==
  \E p \in Procs :
    /\ proc[p].kind = "cancel" /\ proc[p].pc = "done"
    /\ proc[p].res = "true" /\ proc[p].jid = j

\* C27: once cancelJob(id) has returned true, the Executor is never invoked
\* for that job and its status stays cancelled, under any interleaving with a
\* dispatch cycle that dequeues the same job.
C27_CancelWins ==
  /\ [](\A j \in JobIds :
          CancelledTrue(j) => rec[j].status = JobStatus.CANCELLED)
  /\ [][\A q \in Procs :
          (proc[q].pc = "exec" /\ proc'[q].pc = "ujs_get")
          => ~CancelledTrue(proc[q].jid)]_vars

\* C28: every job record has 0 <= attempts <= maxAttempts, also when the same
\* job is delivered to two executors and both executions fail.
C28_AttemptsBounded ==
  \A j \in JobIds :
    rec[j] # NoRec
    => rec[j].attempts >= 0 /\ rec[j].attempts <= rec[j].maxAttempts

\* p is a worker cycle between its acquisition of the lock and its return
InLock(p) ==
  /\ proc[p].kind = "single"
  /\ proc[p].pc \in PastBreaker \ {"lk_acquire", "lk_check", "lk_sleep"}

\* C9, the step: an acquisition attempt that finds the lock record present
\* fails and leaves it alone, one that finds none writes it and goes on to
\* dequeue; a failed attempt is followed by the retry delay, and the fifth by
\* the 'another instance' result with no job dequeued or executed.
C9_LockStep ==
  \A p \in Procs :
    /\ (proc[p].pc = "lk_acquire" /\ proc'[p].pc # "lk_acquire") =>
         IF LockPresent
         THEN lock' = lock /\ proc'[p].pc = "lk_check"
         ELSE lock'.held /\ lock'.at = now /\ proc'[p].pc = "dq_zrange"
    /\ (proc[p].pc = "lk_check" /\ proc'[p].pc # "lk_check") =>
         /\ proc'[p].tries = proc[p].tries + 1
         /\ idx' = idx /\ rec' = rec /\ gExec' = gExec /\ gLeases' = gLeases
         /\ IF proc'[p].tries = MAX_LOCK_RETRIES
            THEN /\ proc'[p].pc = "done"
                 /\ proc'[p].res = "Another instance is processing, try again later"
                 /\ proc'[p].jid = 0
            ELSE /\ proc'[p].pc = "lk_sleep"
                 /\ proc'[p].wake = now + LOCK_RETRY_DELAY_MS

\* C9: of two worker cycles that try to acquire the lock, one succeeds: no two
\* cycles are past the acquisition at once; the other, while the lock record
\* stays present, returns 'another instance is processing' after exactly 5
\* failed attempts, with no job dequeued or executed.
C9_Lock ==
  /\ [](\A p, q \in Procs : (InLock(p) /\ InLock(q)) => p = q)
  /\ [](\A p \in Procs :
          (proc[p].pc = "done"
           /\ proc[p].res = "Another instance is processing, try again later")
          => proc[p].tries = MAX_LOCK_RETRIES /\ proc[p].jid = 0)
  /\ [][C9_LockStep]_vars

\* one cycle holds the lock and the other has given up after 5 attempts
C9_Witness ==
  \E p, q \in Procs :
    /\ InLock(q) /\ LockPresent
    /\ proc[p].pc = "done"
    /\ proc[p].res = "Another instance is processing, try again later"
    /\ proc[p].tries = MAX_LOCK_RETRIES

\* C19: at no time are two worker cycles between a successful acquisition of
\* the lock and their return, also when one cycle's work lasts longer than
\* the 30-second lease.
C19_NoTwoInLock ==
  \A p, q \in Procs : (InLock(p) /\ InLock(q)) => p = q

----------------------------------------------------------------------------
(* Claims about worker cycles whose store commands can fail (SpecFault) *)

\* p is a worker cycle, single or batch, between its acquisition of the lock
\* and its return
Locked(p) ==
  /\ proc[p].kind \in {"single", "batch"}
  /\ proc[p].pc \in PastBreaker \ {"lk_acquire", "lk_check", "lk_sleep"}

\* C24: every worker cycle that acquired the lock releases it on every exit
\* path, also when a store operation inside the cycle throws: whenever a
\* cycle that is past the acquisition returns, it has called releaseLock.
C24_LockReleased ==
  [][\A p \in Procs :
       (Locked(p) /\ proc'[p].pc = "done")
       => proc'[p].rel]_vars

----------------------------------------------------------------------------
(* Claims about batches (SpecBatch) *)

\* C26: while the stored circuit state is OPEN and less than 30 s have passed
\* since its last recorded failure, no worker cycle invokes the Executor,
\* the remaining iterations of a batch included.
C26_NoExecWhileOpen ==
  [][\A p \in Procs :
       (/\ proc[p].kind \in {"single", "batch"}
        /\ proc[p].pc = "exec" /\ proc'[p].pc = "ujs_get")
       => ~CircuitOpenNow]_vars

----------------------------------------------------------------------------
\* C30: a batch stops as soon as 3 consecutive executions in it have failed, a
\* success in between restarting the count: the step that records the third
\* failure in a row ends the batch with the lock's release issued and the
\* results returned, so that no batch still dequeuing or executing has three
\* failures in a row behind it; an earlier failure moves the batch on and
\* counts, and a success sets the count back to zero.
C30_BatchAborts ==
  /\ [][\A p \in Procs :
          (/\ proc[p].kind = "batch"
           /\ proc[p].pc = "cf_set"
           /\ proc'[p].pc # proc[p].pc)
          => IF proc[p].consecutiveFailures + 1 >= MAX_CONSECUTIVE_FAILURES
             THEN /\ proc'[p].pc = "done"
                  /\ proc'[p].rel
                  /\ proc'[p].res = "results"
                  /\ gExec' = gExec
                  /\ rec' = rec /\ idx' = idx
             ELSE \/ /\ proc'[p].pc = "dq_zrange"
                     /\ proc'[p].consecutiveFailures
                          = proc[p].consecutiveFailures + 1
                  \/ /\ proc'[p].pc = "done"
                     /\ proc[p].i + 1 >= proc[p].count]_vars
  /\ [][\A p \in Procs :
          (/\ proc[p].kind = "batch"
           /\ proc[p].pc = "cb_reset"
           /\ proc'[p].pc # proc[p].pc)
          => proc'[p].consecutiveFailures = 0]_vars
  /\ [](\A p \in Procs :
          (proc[p].kind = "batch" /\ proc[p].pc # "done")
          => proc[p].consecutiveFailures < MAX_CONSECUTIVE_FAILURES)

\* A batch that returned after three failures in a row, its release of the
\* lock under way, while jobs are still waiting in the queue
C30_Witness ==
  \E p \in Procs :
    /\ proc[p].kind = "batch"
    /\ proc[p].pc = "done"
    /\ proc[p].res = "results"
    /\ proc[p].consecutiveFailures = MAX_CONSECUTIVE_FAILURES
    /\ proc[p].rel
    /\ StatsTotal(idx) > 0

\* some job is still indexed for a type the batch was asked to serve
IndexedForRequested(pr) ==
  \E k \in 1..Len(Types(pr)) : idx[Types(pr)[k]] # {}

\* C31: a batch with count N returns before its N-th iteration only when no
\* requested type yields a job or the third failure in a row was recorded; a
\* leased job skipped as a duplicate does not end it while other jobs are
\* indexed for the requested types; and it executes only inside its N
\* iterations.
C31_BatchRunsOn ==
  [][\A p \in Procs :
       (/\ proc[p].kind = "batch"
        /\ proc[p].pc \notin GatePcs
        /\ proc'[p].pc # proc[p].pc)
       => /\ (proc'[p].pc = "done" /\ proc[p].i + 1 < proc[p].count)
             => \/ proc[p].pc \in {"dq_zrange", "dq_get"}
                \/ /\ proc[p].pc = "cf_set"
                   /\ proc[p].consecutiveFailures + 1
                        >= MAX_CONSECUTIVE_FAILURES
                \/ /\ proc[p].pc = "dd_exists"
                   /\ ~IndexedForRequested(proc[p])
          /\ (proc[p].pc = "exec") => proc[p].i < proc[p].count]_vars

(* Claims about cancelJob racing a worker cycle (SpecCancelRace) *)

\* the step is one of a retryJob call
RetryActs == \E p \in Procs : proc[p].kind = "retry" /\ proc'[p].pc # proc[p].pc

\* C32: a record that is completed or cancelled never changes status again,
\* and a record that is failed with attempts = maxAttempts changes status only
\* in a step of retryJob.
C32_TerminalStays ==
  [][\A j \in JobIds :
       (rec[j] # NoRec /\ rec'[j] # NoRec)
       => /\ rec[j].status \in {JobStatus.COMPLETED, JobStatus.CANCELLED}
             => rec'[j].status = rec[j].status
          /\ (/\ rec[j].status = JobStatus.FAILED
              /\ rec[j].attempts = rec[j].maxAttempts
              /\ rec'[j].status # rec[j].status)
             => RetryActs]_vars

(* Claims about cleanupOldJobs (SpecCleanup) *)

\* the records cleanupOldJobs(olderThan) has to delete at time now
C40_Old(olderThan) ==
  {j \in JobIds :
     /\ Get(j) # NoRec
     /\ rec[j].status \in {"completed", "failed", "cancelled"}
     /\ rec[j].createdAt < now - (olderThan * 1000)}

\* C40: cleanupOldJobs(olderThan) deletes exactly the records that are
\* completed, failed or cancelled and were created before now - olderThan,
\* returns their number, and leaves every other record (the pending and the
\* processing ones among them) and every index entry as it was.
C40_CleanupFrame ==
  [][\A p \in Procs :
       (proc[p].pc = "cleanup" /\ proc'[p].pc # proc[p].pc)
       => /\ \A j \in JobIds :
               rec'[j] = IF j \in C40_Old(proc[p].olderThan) THEN NoRec
                         ELSE rec[j]
          /\ idx' = idx
          /\ proc'[p].pc = "done"
          /\ proc'[p].cleaned = Cardinality(C40_Old(proc[p].olderThan))]_vars

\* A call that deleted one old record and kept a record that is as old but
\* still pending or processing
C40_Witness ==
  \E p \in Procs, j \in JobIds :
    /\ proc[p].kind = "cleanupOldJobs"
    /\ proc[p].pc = "done"
    /\ proc[p].cleaned = 1
    /\ rec[j] # NoRec
    /\ rec[j].status \in {"pending", "processing"}
    /\ rec[j].createdAt < now - (proc[p].olderThan * 1000)
    /\ \E k \in JobIds : k \in gIds /\ rec[k] = NoRec

(* Claims about the cooldown between executions *)

\* max(0, 5000 ms - (now - lastOp)), lastOp being the stored timestamp
C39_Remaining ==
  IF CooldownPresent /\ DEFAULT_COOLDOWN_MS - (now - cooldown.at) > 0
  THEN DEFAULT_COOLDOWN_MS - (now - cooldown.at) ELSE 0

\* C39: in a worker cycle the wait before an execution is the remaining
\* cooldown plus the extra delay of the job's type, the timestamp is written
\* right after a successful execution, and no worker execution begins less
\* than 5 s after the timestamp of the previous successful one.
C39_Cooldown ==
  [][\A p \in Procs :
       (proc[p].kind \in {"single", "batch"} /\ proc'[p].pc # proc[p].pc)
       => /\ proc[p].pc = "cd_get"
             => LET wait == C39_Remaining + AdditionalDelay(proc[p])
                IN IF wait > 0
                   THEN proc'[p].pc = "cd_sleep" /\ proc'[p].wake = now + wait
                   ELSE proc'[p].pc = "exec"
          /\ proc[p].pc = "cd_sleep"
             => proc'[p].pc = "exec" /\ now >= proc[p].wake
          /\ proc[p].pc = "cd_set"
             => cooldown'.set /\ cooldown'.at = now
          /\ (proc[p].pc = "exec" /\ CooldownPresent)
             => now - cooldown.at >= DEFAULT_COOLDOWN_MS]_vars

(* Claims about the expiry of the circuit record (SpecWorker) *)

\* C38: the circuit record is written with an expiry of twice the open
\* timeout, 2 x 30 s = 60 s after the write, and is gone from the store once
\* 60 s have passed since its last write.
C38_CircuitExpiry ==
  /\ [][\A p \in Procs :
          (proc[p].pc = "cf_set" /\ proc'[p].pc # proc[p].pc)
          => circuit'.exp = now + (2 * CIRCUIT_TIMEOUT_MS)]_vars
  /\ [](circuit.state # "none"
        => (now - circuit.lastFailure >= 2 * CIRCUIT_TIMEOUT_MS
            => ~CircuitPresent))

(* Claims about dequeueJob's null result (SpecOps) *)

\* C37: dequeueJob(type) returns null only when it read an empty index: a call
\* that read a non-empty index goes on to remove the entry, read the record
\* and return the job.
C37_NullOnlyWhenEmpty ==
  [][\A p \in Procs :
       /\ (proc[p].pc = "dq_zrange" /\ idx[CurType(proc[p])] # {})
          => \/ proc'[p].pc = "dq_zrem"
             \/ [proc'[p] EXCEPT !.rel = proc[p].rel] = proc[p]
       /\ (proc[p].pc = "dq_get" /\ proc'[p].pc # proc[p].pc)
          => proc'[p].pc = "dq_set"]_vars

(* Claims about the release of the lock (SpecWorker) *)

\* C36: when a worker cycle that acquired the lock returns its result, the
\* lock record is gone: the release has completed, it is not merely under way.
C36_ReleasedAtReturn ==
  [][\A p \in Procs :
       (/\ proc[p].kind \in {"single", "batch"}
        /\ proc[p].pc \notin GatePcs \cup {"done"}
        /\ proc'[p].pc = "done")
       => ~lock'.held /\ ~proc'[p].rel]_vars

(* Claims about waiting for the lock (SpecWait) *)

LockWaitPcs == {"lk_acquire", "lk_check", "lk_sleep"}

\* C35: waitForLock terminates.  A cycle inside it has failed fewer than 5
\* attempts and every failed attempt counts; a failed attempt before the fifth
\* is followed by one wait of 1 s and the next attempt, the fifth by `false`
\* with no further wait, and a successful attempt by the rest of the cycle.
C35_WaitForLockEnds ==
  /\ [](\A p \in Procs :
          /\ proc[p].tries <= MAX_LOCK_RETRIES
          /\ proc[p].pc \in LockWaitPcs => proc[p].tries < MAX_LOCK_RETRIES
          /\ proc[p].pc = "lk_sleep"
               => proc[p].wake <= now + LOCK_RETRY_DELAY_MS)
  /\ [][\A p \in Procs :
          /\ (proc[p].pc = "lk_check" /\ proc'[p].pc # proc[p].pc)
             => /\ proc'[p].tries = proc[p].tries + 1
                /\ IF proc'[p].tries < MAX_LOCK_RETRIES
                   THEN /\ proc'[p].pc = "lk_sleep"
                        /\ proc'[p].wake = now + LOCK_RETRY_DELAY_MS
                   ELSE /\ proc'[p].pc = "done"
                        /\ proc'[p].res
                             = "Another instance is processing, try again later"
          /\ (proc[p].pc = "lk_sleep" /\ proc'[p].pc # proc[p].pc)
             => proc'[p].pc = "lk_acquire" /\ now >= proc[p].wake
          /\ (proc[p].pc = "lk_acquire" /\ proc'[p].pc # proc[p].pc
              /\ ~LockPresent)
             => proc'[p].pc \notin LockWaitPcs]_vars

\* A cycle that gave up after its fifth failed attempt, 4 s after its first
C35_Witness ==
  \E p \in Procs :
    /\ proc[p].pc = "done"
    /\ proc[p].res = "Another instance is processing, try again later"
    /\ proc[p].tries = MAX_LOCK_RETRIES
    /\ now = (MAX_LOCK_RETRIES - 1) * LOCK_RETRY_DELAY_MS

(* Claims about the score of a retried job (Spec) *)

\* C34: the step that re-inserts a job into the index after a failed attempt
\* gives it the enqueue score with the eligibility time replaced by now plus
\* the backoff, the job's priority weight included.
C34_RetryKeepsPriority ==
  [][\A p \in Procs :
       (proc[p].pc = "ujs_zadd" /\ proc'[p].pc # proc[p].pc)
       => LET job == proc[p].cur
          IN <<EnqueueScore(job.priority, 0, now + RetryDelay(job.attempts)),
               job.id>> \in idx'[job.type]]_vars

(* Claims about worker cycles that keep being triggered (SpecLive) *)

\* C33: every enqueued job (none is cancelled here) is eventually passed to
\* the Executor at least once and eventually reaches status completed or
\* failed.
C33_EventuallyTerminal ==
  \A j \in JobIds :
    /\ (rec[j] # NoRec) ~> (gExec[j] >= 1)
    /\ (rec[j] # NoRec)
         ~> (rec[j] # NoRec /\ rec[j].status \in {JobStatus.COMPLETED,
                                                 JobStatus.FAILED})

(* Claims about the breaker when cycles overlap (SpecLeaseBreaker) *)

\* C29: a successful execution in a worker cycle deletes the circuit state,
\* so the failure count restarts from zero: the record is OPEN only after 5
\* failures recorded with no success and no timeout reset between them.
C29_OpenOnlyAfterFive ==
  /\ [][\A p \in Procs :
          (proc[p].pc = "cb_reset" /\ proc'[p].pc # proc[p].pc)
          => circuit' = NoCircuit]_vars
  /\ []((CircuitPresent /\ circuit.state = "OPEN")
        => gFails >= CIRCUIT_FAILURE_THRESHOLD)

====
